---- MODULE Spec2Model ----
(***************************************************************************)
(* A model of the Hong Kong Mahjong rule engine: the MahjongGame turn and  *)
(* claim state machine (src/src/game.js) on top of the HKOSEngine scoring, *)
(* claim arbitration and furiten functions                                 *)
(* (src/src/HKOSEngine_CORRECTED.js).                                      *)
(*                                                                         *)
(* A tile is its index 0..135 in the order createTileSet builds the set    *)
(* before shuffling: four consecutive indices are the four copies of one   *)
(* kind, kinds 0..26 are the suited tiles (B, C, D by rank), 27..30 the    *)
(* winds E S W N and 31..33 the dragons RED GREEN WHITE.                   *)
(***************************************************************************)
EXTENDS Integers, Sequences, FiniteSets, TLC

VARIABLES
    state,          \* this.state
    endReason,      \* this.endReason ("NONE" until endGame runs)
    endWinner,      \* this.endData.winner.position (NoSeat when there is none)
    currentPlayer,  \* this.currentPlayer
    turnCount,      \* this.turnCount
    liveWall,       \* this.liveWall
    deadWall,       \* this.deadWall
    livePointer,    \* this.wallState.livePointer
    deadPointer,    \* this.wallState.deadPointer
    concealed,      \* players[s].concealed
    exposed,        \* players[s].exposed
    discards,       \* players[s].discards
    isFuriten,      \* players[s].isFuriten
    pendingClaims,  \* this.pendingClaims
    lastDiscard,    \* this.lastDiscard
    lastDiscarder,  \* this.lastDiscarder.position
    score,          \* players[s].score
    survivor,       \* the value returned by the last resolveClaims call
    lastOp,         \* history: the last call, its seat and its outcome
    calls,          \* history: number of calls made on the game
    starts,         \* history: number of startGame calls
    scored          \* the last call of a scoring function: its input and result

vars == <<state, endReason, endWinner, currentPlayer, turnCount, liveWall,
          deadWall, livePointer, deadPointer, concealed, exposed, discards,
          isFuriten, pendingClaims, lastDiscard, lastDiscarder, score,
          survivor, lastOp, calls, starts, scored>>

(***************************************************************************)
(* Program constants                                                       *)
(***************************************************************************)
TILES_TOTAL == 136
DEAD_WALL_SIZE == 16
LIVE_WALL_SIZE == TILES_TOTAL - DEAD_WALL_SIZE
MIN_FAAN == 3
LIMIT_POINTS == 32
NumPlayers == 4
HandSize == 13
dealerPosition == 0

Seats == 0 .. (NumPlayers - 1)
NoSeat == 0 - 1
Tiles == 0 .. (TILES_TOTAL - 1)
Kinds == 0 .. 33

\* JavaScript's null and undefined where the program stores them in place of a tile
NULL == 0 - 2
UNDEFINED == 0 - 1
NoClaim == [type |-> "NONE", priority |-> 0, player |-> NoSeat, distance |-> 0,
            faan |-> 0]

(***************************************************************************)
(* Bounds of the model                                                     *)
(***************************************************************************)
MaxCalls == 3
MaxStarts == 1
MaxTileIndex == 1
MaxClaims == 3

(***************************************************************************)
(* Tiles                                                                   *)
(***************************************************************************)
Kind(t) == t \div 4

TileType(t) ==
    IF Kind(t) < 27 THEN "SUITED" ELSE IF Kind(t) < 31 THEN "WIND" ELSE "DRAGON"

Suit(t) ==
    IF Kind(t) < 9 THEN "B"
    ELSE IF Kind(t) < 18 THEN "C"
    ELSE IF Kind(t) < 27 THEN "D"
    ELSE IF Kind(t) < 31 THEN "WIND" ELSE "DRAGON"

\* rank: 1..9 for a suited tile; a wind or dragon is ranked by its own name,
\* here its kind
Rank(t) == IF Kind(t) < 27 THEN (Kind(t) % 9) + 1 ELSE Kind(t)

IsTerminal(t) == Kind(t) < 27 /\ Rank(t) \in {1, 9}

IsHonor(t) == Kind(t) >= 27

\* `${rank}${suit}` for a suited tile, the rank for a wind or dragon: one key
\* per kind
getTileKey(t) == Kind(t)

WindE == 27
seatWind(s) == WindE + s
prevailingWind == WindE

(***************************************************************************)
(* Sequence helpers                                                        *)
(***************************************************************************)
RemoveAt(s, i) == [j \in 1 .. (Len(s) - 1) |-> IF j < i THEN s[j] ELSE s[j + 1]]

Range(s) == {s[i] : i \in DOMAIN s}

RECURSIVE SumSeq(_)
SumSeq(s) == IF s = <<>> THEN 0 ELSE Head(s) + SumSeq(Tail(s))

RECURSIVE Flatten(_)
Flatten(ss) == IF ss = <<>> THEN <<>> ELSE Head(ss) \o Flatten(Tail(ss))

CountKey(s, k) == Cardinality({i \in DOMAIN s : getTileKey(s[i]) = k})

(***************************************************************************)
(* HKOSEngine: win validation and scoring                                  *)
(***************************************************************************)
MeldSize(meld) == IF meld.type \in {"KONG", "CONCEALED_KONG"} THEN 4 ELSE 3

kongCount(hand) ==
    Cardinality({i \in DOMAIN hand.exposed :
                    hand.exposed[i].type \in {"KONG", "CONCEALED_KONG"}})

totalTiles(hand) ==
    Len(hand.concealed)
      + SumSeq([i \in DOMAIN hand.exposed |-> MeldSize(hand.exposed[i])])

validateWinCount(hand) == totalTiles(hand) = 14 + kongCount(hand)

\* 1B 9B 1C 9C 1D 9D E S W N RED GREEN WHITE
Orphans == {0, 8, 9, 17, 18, 26, 27, 28, 29, 30, 31, 32, 33}

\* a check that does not count the doubled orphans, to show that C28 rests
\* on doubleCount === 1
isThirteenOrphansAnyDouble(hand) ==
    /\ Len(hand.exposed) = 0
    /\ Len(hand.concealed) = 14
    /\ \A k \in Orphans : CountKey(hand.concealed, k) > 0

isThirteenOrphans(hand) ==
    /\ Len(hand.exposed) = 0
    /\ Len(hand.concealed) = 14
    /\ \A k \in Orphans : CountKey(hand.concealed, k) > 0
    /\ Cardinality({k \in Orphans : CountKey(hand.concealed, k) = 2}) = 1

\* a check that takes four of a kind for two pairs, to show that C29 rests on
\* count === 2
isSevenPairsWithQuads(hand) ==
    /\ Len(hand.exposed) = 0
    /\ Len(hand.concealed) = 14
    /\ \A k \in Kinds : CountKey(hand.concealed, k) \in {0, 2, 4}

isSevenPairs(hand) ==
    /\ Len(hand.exposed) = 0
    /\ Len(hand.concealed) = 14
    /\ Cardinality({k \in Kinds : CountKey(hand.concealed, k) = 2}) = 7

allTiles(hand) ==
    hand.concealed \o Flatten([i \in DOMAIN hand.exposed |-> hand.exposed[i].tiles])

checkFullFlush(hand) ==
    LET suits == {Suit(t) : t \in Range(allTiles(hand))}
    IN  IF Cardinality(suits) = 1 /\ suits \cap {"WIND", "DRAGON"} = {}
        THEN 7 ELSE 0

IsSet(meld) == meld.type \in {"PUNG", "KONG"}

countDragonSets(hand) ==
    Cardinality({i \in DOMAIN hand.exposed :
        TileType(hand.exposed[i].tiles[1]) = "DRAGON" /\ IsSet(hand.exposed[i])})

\* a wind set that is worth 1 Faan even when it matches both winds, to show
\* that C30 rests on the double-wind branch
WindFaanSingle(meld, seatW, prevW) ==
    IF TileType(meld.tiles[1]) = "WIND" /\ IsSet(meld)
         /\ (Rank(meld.tiles[1]) = seatW \/ Rank(meld.tiles[1]) = prevW)
    THEN 1 ELSE 0

WindFaan(meld, seatW, prevW) ==
    IF TileType(meld.tiles[1]) = "WIND" /\ IsSet(meld)
    THEN IF Rank(meld.tiles[1]) = seatW /\ Rank(meld.tiles[1]) = prevW THEN 2
         ELSE IF Rank(meld.tiles[1]) = seatW \/ Rank(meld.tiles[1]) = prevW THEN 1
         ELSE 0
    ELSE 0

checkWindSets(hand, seatW, prevW) ==
    SumSeq([i \in DOMAIN hand.exposed |-> WindFaan(hand.exposed[i], seatW, prevW)])

isAllChows(hand) ==
    /\ \A i \in DOMAIN hand.exposed : hand.exposed[i].type = "CHOW"
    /\ \A t \in Range(allTiles(hand)) : ~IsHonor(t) /\ ~IsTerminal(t)
    /\ Len(hand.exposed) > 0

countTerminalSets(hand) ==
    Cardinality({i \in DOMAIN hand.exposed :
        IsSet(hand.exposed[i]) /\ IsTerminal(hand.exposed[i].tiles[1])})

RECURSIVE Pow2(_)
Pow2(n) == IF n <= 0 THEN 1 ELSE 2 * Pow2(n - 1)

\* a conversion that caps every hand at the limit, to show that C26 rests on
\* the cap applying from 13 Faan only
calculatePointsCapped(faan) ==
    IF faan < MIN_FAAN THEN 0
    ELSE IF Pow2(faan - MIN_FAAN) > LIMIT_POINTS THEN LIMIT_POINTS
    ELSE Pow2(faan - MIN_FAAN)

calculatePoints(faan) ==
    IF faan < MIN_FAAN THEN 0
    ELSE IF faan >= 13 THEN LIMIT_POINTS
    ELSE Pow2(faan - MIN_FAAN)

Entry(pattern, faan) ==
    IF faan > 0 THEN <<[pattern |-> pattern, faan |-> faan]>> ELSE <<>>

\* the breakdown of a hand that is neither Thirteen Orphans nor Seven Pairs
regularBreakdown(hand, isSelfDraw, seatW, prevW) ==
    Entry("Full Flush", checkFullFlush(hand))
      \o Entry("Dragon Sets", countDragonSets(hand))
      \o Entry("Wind Sets", checkWindSets(hand, seatW, prevW))
      \o Entry("All Chows", IF isAllChows(hand) THEN 1 ELSE 0)
      \o Entry("Terminal Sets", countTerminalSets(hand))
      \o Entry("Self-Draw", IF isSelfDraw THEN 1 ELSE 0)

\* what a pattern adds to the running total: nothing unless its Faan is positive
Gain(faan) == IF faan > 0 THEN faan ELSE 0

\* the running total of a hand that is neither Thirteen Orphans nor Seven Pairs
regularFaan(hand, isSelfDraw, seatW, prevW) ==
    Gain(checkFullFlush(hand))
      + Gain(countDragonSets(hand))
      + Gain(checkWindSets(hand, seatW, prevW))
      + (IF isAllChows(hand) THEN 1 ELSE 0)
      + Gain(countTerminalSets(hand))
      + (IF isSelfDraw THEN 1 ELSE 0)

\* a result that is valid from the first Faan, to show that C39 rests on the
\* validity threshold being the threshold of the points
ResultValidFromOneFaan(breakdown, totalFaan) ==
    [isValid |-> totalFaan >= 1, totalFaan |-> totalFaan,
     points |-> calculatePoints(totalFaan), breakdown |-> breakdown]

Result(breakdown, totalFaan) ==
    [isValid |-> totalFaan >= MIN_FAAN, totalFaan |-> totalFaan,
     points |-> calculatePoints(totalFaan), breakdown |-> breakdown]

\* a score in which Seven Pairs does not return early, to show that C27 rests
\* on the special hands short-circuiting the other patterns
calculateScoreAccumulating(hand, isSelfDraw, seatW, prevW) ==
    IF isThirteenOrphans(hand) THEN Result(Entry("Thirteen Orphans", 13), 13)
    ELSE IF isSevenPairs(hand)
    THEN Result(Entry("Seven Pairs", 4)
                  \o regularBreakdown(hand, isSelfDraw, seatW, prevW),
                4 + regularFaan(hand, isSelfDraw, seatW, prevW))
    ELSE Result(regularBreakdown(hand, isSelfDraw, seatW, prevW),
                regularFaan(hand, isSelfDraw, seatW, prevW))

calculateScore(hand, isSelfDraw, seatW, prevW) ==
    IF isThirteenOrphans(hand) THEN Result(Entry("Thirteen Orphans", 13), 13)
    ELSE IF isSevenPairs(hand) THEN Result(Entry("Seven Pairs", 4), 4)
    ELSE Result(regularBreakdown(hand, isSelfDraw, seatW, prevW),
                regularFaan(hand, isSelfDraw, seatW, prevW))

\* a payment doubled once for an East winner and once more for an East
\* loser, to show that C31 rests on the single doubling
calculatePaymentsPerEast(winnerWind, loserWind, points) ==
    points * (IF winnerWind = WindE THEN 2 ELSE 1)
           * (IF loserWind = WindE THEN 2 ELSE 1)

\* winner.wind and loser.wind are winds, 'E' is WindE
calculatePayments(winnerWind, loserWind, points) ==
    IF winnerWind = WindE \/ loserWind = WindE THEN points * 2 ELSE points

(***************************************************************************)
(* HKOSEngine: claim arbitration                                           *)
(***************************************************************************)
getClaimPriority(claimType) ==
    CASE claimType = "WIN" -> 1
      [] claimType = "PUNG" -> 2
      [] claimType = "KONG" -> 2
      [] claimType = "CHOW" -> 3
      [] OTHER -> 999

getDistance(from, to) == (to - from + 4) % 4

\* the filter without its furiten test, to show that C9 rests on that test
isValidClaimIgnoringFuriten(claim, discarderPosition, furiten) ==
    IF claim.type = "WIN"
    THEN ~(claim.faan < MIN_FAAN)
    ELSE IF claim.type = "CHOW"
    THEN claim.player = (discarderPosition + 1) % 4
    ELSE TRUE

\* the filter without its seat test for CHOW, to show that C19 rests on that
\* test
isValidClaimAnyChow(claim, discarderPosition, furiten) ==
    IF claim.type = "WIN"
    THEN ~furiten[claim.player] /\ ~(claim.faan < MIN_FAAN)
    ELSE TRUE

\* the filter of resolveClaims: claim.player.isFuriten is read when the claims
\* are resolved
isValidClaim(claim, discarderPosition, furiten) ==
    IF claim.type = "WIN"
    THEN ~furiten[claim.player] /\ ~(claim.faan < MIN_FAAN)
    ELSE IF claim.type = "CHOW"
    THEN claim.player = (discarderPosition + 1) % 4
    ELSE TRUE

\* a comparator that looks at the distance first, to show that C5 rests on
\* the order of the two comparisons
compareClaimsByDistance(a, b) ==
    IF a.distance # b.distance THEN a.distance - b.distance
    ELSE a.priority - b.priority

\* the comparator of validClaims.sort: negative when a sorts before b
compareClaims(a, b) ==
    IF a.priority # b.priority THEN a.priority - b.priority
    ELSE a.distance - b.distance

\* Array.prototype.sort is stable: a claim is placed after every claim that
\* arrived before it and does not sort after it
RECURSIVE insertClaim(_, _)
insertClaim(sorted, c) ==
    IF sorted = <<>> THEN <<c>>
    ELSE IF compareClaims(c, Head(sorted)) < 0 THEN <<c>> \o sorted
    ELSE <<Head(sorted)>> \o insertClaim(Tail(sorted), c)

RECURSIVE sortClaims(_)
sortClaims(claims) ==
    IF claims = <<>> THEN <<>>
    ELSE insertClaim(sortClaims(SubSeq(claims, 1, Len(claims) - 1)),
                     claims[Len(claims)])

engineResolveClaims(claims, discarderPosition, furiten) ==
    IF claims = <<>> THEN NoClaim
    ELSE LET validClaims ==
                 SelectSeq(claims,
                           LAMBDA c : isValidClaim(c, discarderPosition, furiten))
         IN  IF validClaims = <<>> THEN NoClaim
             ELSE sortClaims(validClaims)[1]

(***************************************************************************)
(* HKOSEngine: furiten                                                     *)
(***************************************************************************)
\* an update that does not clear the flag on DISCARD, to show that C8 rests
\* on the DISCARD branch
updateFuritenKeepsOnDiscard(furiten, p, actionType) ==
    IF actionType = "DECLINE_WIN" THEN [furiten EXCEPT ![p] = TRUE]
    ELSE furiten

\* an update whose DISCARD clears every seat's flag, to show that C10 rests
\* on the update touching one seat only
updateFuritenClearsAll(furiten, p, actionType) ==
    IF actionType = "DECLINE_WIN" THEN [furiten EXCEPT ![p] = TRUE]
    ELSE IF actionType = "DISCARD" THEN [s \in Seats |-> FALSE]
    ELSE furiten

updateFuriten(furiten, p, actionType) ==
    IF actionType = "DECLINE_WIN" THEN [furiten EXCEPT ![p] = TRUE]
    ELSE IF actionType = "DISCARD" THEN [furiten EXCEPT ![p] = FALSE]
    ELSE furiten

(***************************************************************************)
(* MahjongGame.  A game g is the record of the object's fields; every      *)
(* method is a function from the game before the call to the game after it *)
(***************************************************************************)
\* players[i].isAI: the host's seat is human, the server fills the other seats
\* with AI players
isAI == [s \in Seats |-> s # 0]

hand(g, p) == [concealed |-> g.concealed[p], exposed |-> g.exposed[p]]

endGame(g, reason, winner) ==
    [g EXCEPT !.state = "ENDED", !.endReason = reason, !.endWinner = winner]

\* calculateScore reads a property of every tile of the hand once the count is
\* valid: on null or undefined that is a TypeError
winCheckThrows(g, p, tile) ==
    /\ tile \notin Tiles
    /\ validateWinCount([concealed |-> Append(g.concealed[p], tile),
                         exposed |-> g.exposed[p]])

\* null is modelled as isValid = FALSE
checkWinPossibility(g, p, tile) ==
    LET tempHand == [concealed |-> Append(g.concealed[p], tile),
                     exposed |-> g.exposed[p]]
        none == [isValid |-> FALSE, totalFaan |-> 0, points |-> 0,
                 breakdown |-> <<>>]
    IN  IF ~validateWinCount(tempHand) THEN none
        ELSE LET scoreResult ==
                     calculateScore(tempHand, FALSE, seatWind(p), prevailingWind)
             IN  IF scoreResult.isValid /\ ~g.isFuriten[p] THEN scoreResult
                 ELSE none

checkPungPossibility(g, p, tile) ==
    CountKey(g.concealed[p], getTileKey(tile)) >= 2

\* the sequence search is not implemented: the method returns false
checkChowPossibility(g, p, tile) == FALSE

\* an advance that passes the turn on an exhausted live wall instead of ending
\* the game, to show that C16 rests on the exhaustion branch
advanceTurnNeverEnds(g) ==
    LET p == (g.currentPlayer + 1) % 4
        g1 == [g EXCEPT !.currentPlayer = p]
    IN  IF g.livePointer >= Len(g.liveWall)
        THEN [g1 EXCEPT !.state = "PLAYING"]
        ELSE LET drawnTile == g.liveWall[g.livePointer + 1]
                 g2 == [g1 EXCEPT !.livePointer = @ + 1,
                                  !.concealed[p] = Append(@, drawnTile)]
             IN  [g2 EXCEPT !.turnCount = @ + 1, !.state = "PLAYING"]

advanceTurn(g) ==
    LET p == (g.currentPlayer + 1) % 4
        g1 == [g EXCEPT !.currentPlayer = p]
    IN  IF g.livePointer >= Len(g.liveWall)
        THEN endGame(g1, "EXHAUSTIVE_DRAW", NoSeat)
        ELSE LET drawnTile == g.liveWall[g.livePointer + 1]
                 g2 == [g1 EXCEPT !.livePointer = @ + 1,
                                  !.concealed[p] = Append(@, drawnTile)]
                 canWin == checkWinPossibility(g2, p, drawnTile)
                 g3 == IF canWin.isValid
                          /\ isAI[p]
                          /\ calculateScore(hand(g2, p), TRUE, seatWind(p),
                                            prevailingWind).isValid
                       THEN endGame(g2, "WIN", p)
                       ELSE g2
             IN  [g3 EXCEPT !.turnCount = @ + 1, !.state = "PLAYING"]

claimsOf(g, p, tile) ==
    LET canWin == checkWinPossibility(g, p, tile)
        d == getDistance(g.lastDiscarder, p)
    IN  (IF canWin.isValid
         THEN <<[type |-> "WIN", priority |-> 1, player |-> p, distance |-> d,
                 faan |-> canWin.totalFaan]>>
         ELSE <<>>)
        \o (IF checkPungPossibility(g, p, tile)
            THEN <<[type |-> "PUNG", priority |-> 2, player |-> p,
                    distance |-> d, faan |-> 0]>>
            ELSE <<>>)
        \o (IF p = (g.lastDiscarder + 1) % 4 /\ checkChowPossibility(g, p, tile)
            THEN <<[type |-> "CHOW", priority |-> 3, player |-> p,
                    distance |-> 1, faan |-> 0]>>
            ELSE <<>>)

collectClaims(g, tile) ==
    Flatten([i \in 1 .. NumPlayers |->
                IF i - 1 = g.lastDiscarder THEN <<>> ELSE claimsOf(g, i - 1, tile)])

checkClaims(g, discardedTile) ==
    LET g1 == [g EXCEPT !.pendingClaims = collectClaims(g, discardedTile)]
    IN  IF Len(g1.pendingClaims) > 0 THEN [g1 EXCEPT !.state = "CLAIMING"]
        ELSE advanceTurn(g1)

\* tileIndex counts from 0; splice removes nothing at or past the end and the
\* destructured tile is then undefined, on which checkClaims throws a TypeError
\* at the first other seat, after pendingClaims was emptied
discardTile(g, seat, tileIndex) ==
    IF seat # g.currentPlayer THEN [g |-> g, ret |-> "Not your turn"]
    ELSE LET inHand == tileIndex < Len(g.concealed[seat])
             discardedTile ==
                 IF inHand THEN g.concealed[seat][tileIndex + 1] ELSE UNDEFINED
             g1 == [g EXCEPT
                      !.isFuriten = updateFuriten(@, seat, "DISCARD"),
                      !.concealed[seat] =
                          IF inHand THEN RemoveAt(@, tileIndex + 1) ELSE @,
                      !.discards[seat] = Append(@, discardedTile),
                      !.lastDiscard = discardedTile,
                      !.lastDiscarder = seat]
         IN  IF inHand THEN [g |-> checkClaims(g1, discardedTile), ret |-> "success"]
             ELSE [g |-> [g1 EXCEPT !.pendingClaims = <<>>], ret |-> "TypeError"]

withoutClaimsOf(claims, seat) == SelectSeq(claims, LAMBDA c : c.player # seat)

\* a skip that never passes the turn on, to show that C38 rests on the last
\* skip of a window advancing the turn
skipClaimKeepsTurn(g, seat) ==
    IF winCheckThrows(g, seat, g.lastDiscard) THEN [g |-> g, ret |-> "TypeError"]
    ELSE LET canWin == checkWinPossibility(g, seat, g.lastDiscard)
             g1 == IF canWin.isValid
                   THEN [g EXCEPT !.isFuriten = updateFuriten(@, seat, "DECLINE_WIN")]
                   ELSE g
         IN  [g |-> [g1 EXCEPT !.pendingClaims = withoutClaimsOf(@, seat)],
              ret |-> IF canWin.isValid THEN "DECLINE_WIN" ELSE "skipped"]

skipClaim(g, seat) ==
    IF winCheckThrows(g, seat, g.lastDiscard) THEN [g |-> g, ret |-> "TypeError"]
    ELSE LET canWin == checkWinPossibility(g, seat, g.lastDiscard)
             g1 == IF canWin.isValid
                   THEN [g EXCEPT !.isFuriten = updateFuriten(@, seat, "DECLINE_WIN")]
                   ELSE g
             g2 == [g1 EXCEPT !.pendingClaims = withoutClaimsOf(@, seat)]
         IN  [g |-> IF Len(g2.pendingClaims) = 0 THEN advanceTurn(g2) ELSE g2,
              ret |-> IF canWin.isValid THEN "DECLINE_WIN" ELSE "skipped"]

\* for each taken tile, findIndex by id and splice: its first occurrence goes
indexOfId(s, t) ==
    IF \E i \in DOMAIN s : s[i] = t
    THEN CHOOSE i \in DOMAIN s : s[i] = t /\ \A j \in 1 .. (i - 1) : s[j] # t
    ELSE 0

RECURSIVE removeTiles(_, _)
removeTiles(s, taken) ==
    IF taken = <<>> THEN s
    ELSE LET idx == indexOfId(s, Head(taken))
         IN  removeTiles(IF idx > 0 THEN RemoveAt(s, idx) ELSE s, Tail(taken))

\* the first two concealed tiles whose key is that of the claimed discard
matchingTiles(g, p) ==
    LET m == SelectSeq(g.concealed[p],
                       LAMBDA t : getTileKey(t) = getTileKey(g.lastDiscard))
    IN  SubSeq(m, 1, IF Len(m) < 2 THEN Len(m) ELSE 2)

\* an execution whose PUNG leaves the turn where it was, to show that C7
\* rests on the assignment of currentPlayer
executeClaimKeepsTurn(g, claim) ==
    LET p == claim.player
        g1 ==
          IF claim.type = "WIN"
          THEN endGame([g EXCEPT !.concealed[p] = Append(@, g.lastDiscard)],
                       "WIN", p)
          ELSE IF claim.type = "PUNG"
          THEN LET taken == matchingTiles(g, p)
               IN  [g EXCEPT
                      !.exposed[p] =
                          Append(@, [type |-> "PUNG",
                                     tiles |-> <<g.lastDiscard>> \o taken]),
                      !.concealed[p] = removeTiles(@, taken),
                      !.state = "PLAYING"]
          ELSE IF claim.type = "CHOW"
          THEN [g EXCEPT !.concealed[p] = Append(@, g.lastDiscard),
                         !.currentPlayer = p,
                         !.state = "PLAYING"]
          ELSE g
    IN  [g1 EXCEPT !.pendingClaims = <<>>]

executeClaim(g, claim) ==
    LET p == claim.player
        g1 ==
          IF claim.type = "WIN"
          THEN endGame([g EXCEPT !.concealed[p] = Append(@, g.lastDiscard)],
                       "WIN", p)
          ELSE IF claim.type = "PUNG"
          THEN LET taken == matchingTiles(g, p)
               IN  [g EXCEPT
                      !.exposed[p] =
                          Append(@, [type |-> "PUNG",
                                     tiles |-> <<g.lastDiscard>> \o taken]),
                      !.concealed[p] = removeTiles(@, taken),
                      !.currentPlayer = p,
                      !.state = "PLAYING"]
          ELSE IF claim.type = "CHOW"
          THEN [g EXCEPT !.concealed[p] = Append(@, g.lastDiscard),
                         !.currentPlayer = p,
                         !.state = "PLAYING"]
          ELSE g
    IN  [g1 EXCEPT !.pendingClaims = <<>>]

resolveClaims(g) ==
    IF Len(g.pendingClaims) = 0 THEN [g |-> advanceTurn(g), ret |-> NoClaim]
    ELSE LET winningClaim ==
                 engineResolveClaims(g.pendingClaims, g.lastDiscarder, g.isFuriten)
         IN  IF winningClaim = NoClaim THEN [g |-> advanceTurn(g), ret |-> NoClaim]
             ELSE [g |-> executeClaim(g, winningClaim), ret |-> winningClaim]

\* a declaration that takes its replacement from the live wall, to show that
\* C14 rests on the wall declareKong draws from
declareKongFromLiveWall(g, seat, tiles) ==
    LET g1 == [g EXCEPT !.exposed[seat] = Append(@, [type |-> "KONG", tiles |-> tiles])]
    IN  IF g.livePointer >= Len(g.liveWall)
        THEN [g |-> endGame(g1, "EXHAUSTIVE_DRAW", NoSeat),
              ret |-> "Dead wall exhausted"]
        ELSE LET replacementTile == g.liveWall[g.livePointer + 1]
                 g2 == [g1 EXCEPT !.livePointer = @ + 1,
                                  !.concealed[seat] = Append(@, replacementTile)]
             IN  [g |-> g2,
                  ret |-> IF checkWinPossibility(g2, seat, replacementTile).isValid
                          THEN "canWin" ELSE "success"]

declareKong(g, seat, tiles) ==
    LET g1 == [g EXCEPT !.exposed[seat] = Append(@, [type |-> "KONG", tiles |-> tiles])]
    IN  IF g.deadPointer >= Len(g.deadWall)
        THEN [g |-> endGame(g1, "EXHAUSTIVE_DRAW", NoSeat),
              ret |-> "Dead wall exhausted"]
        ELSE LET replacementTile == g.deadWall[g.deadPointer + 1]
                 g2 == [g1 EXCEPT !.deadPointer = @ + 1,
                                  !.concealed[seat] = Append(@, replacementTile)]
             IN  [g |-> g2,
                  ret |-> IF checkWinPossibility(g2, seat, replacementTile).isValid
                          THEN "canWin" ELSE "success"]

\* enforceInformationBarrier: TRUE when the check throws 'Information leak
\* detected', that is for every index at or beyond the pointer
enforceInformationBarrier(requestedIndex, currentPointer) ==
    requestedIndex >= currentPointer

\* splitWall: the first 120 shuffled tiles are the live wall, the last 16 the
\* dead wall, both pointers 0
splitWall(tiles) ==
    [liveWall |-> SubSeq(tiles, 1, LIVE_WALL_SIZE),
     deadWall |-> SubSeq(tiles, LIVE_WALL_SIZE + 1, TILES_TOTAL),
     livePointer |-> 0, deadPointer |-> 0]

\* a deal that hands each seat thirteen consecutive tiles, to show that C17
\* rests on the round-robin order
dealtInBlocks(wall, p) == [i \in 1 .. HandSize |-> wall[HandSize * p + i]]

\* the tiles seat p is dealt: one per round for 13 rounds, in seat order
dealtTo(wall, p) == [i \in 1 .. HandSize |-> wall[NumPlayers * (i - 1) + p + 1]]

startGame(g, tiles) ==
    LET w == splitWall(tiles)
        dealt == NumPlayers * HandSize
    IN  [g EXCEPT
           !.liveWall = w.liveWall,
           !.deadWall = w.deadWall,
           !.deadPointer = w.deadPointer,
           !.livePointer = dealt + 1,
           !.concealed =
               [p \in Seats |->
                   g.concealed[p] \o dealtTo(w.liveWall, p)
                     \o (IF p = dealerPosition THEN <<w.liveWall[dealt + 1]>>
                         ELSE <<>>)],
           !.state = "PLAYING",
           !.currentPlayer = dealerPosition,
           !.turnCount = 0]

(***************************************************************************)
(* Shuffles.  createTileSet returns a permutation of the 136 tiles; the    *)
(* model draws it from a few fixed permutations, each the unshuffled order *)
(* with some positions exchanged (positions count from 0, as the deal      *)
(* does: position 4i+p goes to seat p, position 52 to the dealer).         *)
(***************************************************************************)
Unshuffled == [i \in 1 .. TILES_TOTAL |-> i - 1]

RECURSIVE Exchange(_, _)
Exchange(w, pairs) ==
    IF pairs = <<>> THEN w
    ELSE LET a == Head(pairs)[1] + 1
             b == Head(pairs)[2] + 1
         IN  Exchange([w EXCEPT ![a] = w[b], ![b] = w[a]], Tail(pairs))

\* seat 1 is dealt thirteen bamboo tiles, seat 2 a pair of 1B, seat 3 three 1C;
\* the dealer holds 3B first, 1B second and all four 5C
ClaimWall ==
    Exchange(Unshuffled,
             << <<37, 23>>, <<41, 27>>, <<45, 31>>, <<49, 35>>, <<3, 38>>,
                <<0, 8>>, <<4, 8>>, <<40, 53>>, <<44, 54>>, <<48, 55>> >>)

\* the dealer draws a pair of 8C late, and the last two discards of the game
\* are 8C
LateClaimWall == Exchange(Unshuffled, << <<64, 68>>, <<65, 72>> >>)

Walls == {ClaimWall}

PlayWalls == {LateClaimWall, ClaimWall}

\* the tiles a client names in a kong declaration: the four copies of a kind
KongKinds == {13}
kongTiles(k) == [i \in 1 .. 4 |-> 4 * k + i - 1]

(***************************************************************************)
(* The state machine                                                       *)
(***************************************************************************)
G ==
    [state |-> state, endReason |-> endReason, endWinner |-> endWinner,
     currentPlayer |-> currentPlayer, turnCount |-> turnCount,
     liveWall |-> liveWall, deadWall |-> deadWall, livePointer |-> livePointer,
     deadPointer |-> deadPointer, concealed |-> concealed, exposed |-> exposed,
     discards |-> discards, isFuriten |-> isFuriten,
     pendingClaims |-> pendingClaims, lastDiscard |-> lastDiscard,
     lastDiscarder |-> lastDiscarder, score |-> score]

Apply(g) ==
    /\ state' = g.state
    /\ endReason' = g.endReason
    /\ endWinner' = g.endWinner
    /\ currentPlayer' = g.currentPlayer
    /\ turnCount' = g.turnCount
    /\ liveWall' = g.liveWall
    /\ deadWall' = g.deadWall
    /\ livePointer' = g.livePointer
    /\ deadPointer' = g.deadPointer
    /\ concealed' = g.concealed
    /\ exposed' = g.exposed
    /\ discards' = g.discards
    /\ isFuriten' = g.isFuriten
    /\ pendingClaims' = g.pendingClaims
    /\ lastDiscard' = g.lastDiscard
    /\ lastDiscarder' = g.lastDiscarder
    /\ score' = g.score

Op(op, seat, ret) == [op |-> op, seat |-> seat, ret |-> ret]

\* no scoring function has been called
NoScore == [op |-> "none"]

\* the game as the constructor leaves it
Init ==
    /\ state = "WAITING"
    /\ endReason = "NONE"
    /\ endWinner = NoSeat
    /\ currentPlayer = 0
    /\ turnCount = 0
    /\ liveWall = <<>>
    /\ deadWall = <<>>
    /\ livePointer = 0
    /\ deadPointer = 0
    /\ concealed = [s \in Seats |-> <<>>]
    /\ exposed = [s \in Seats |-> <<>>]
    /\ discards = [s \in Seats |-> <<>>]
    /\ isFuriten = [s \in Seats |-> FALSE]
    /\ pendingClaims = <<>>
    /\ lastDiscard = NULL
    /\ lastDiscarder = NoSeat
    /\ score = [s \in Seats |-> 0]
    /\ survivor = NoClaim
    /\ lastOp = Op("new", NoSeat, "none")
    /\ calls = 0
    /\ starts = 0
    /\ scored = NoScore

\* the server starts a game as soon as it has constructed it: every other call
\* is made on a started game
Started == starts > 0

TileIndices(s) == (0 .. MaxTileIndex) \cup {Len(concealed[s])}

StartGameCall(tiles) ==
    /\ starts < MaxStarts
    /\ Apply(startGame(G, tiles))
    /\ lastOp' = Op("startGame", NoSeat, "success")
    /\ starts' = starts + 1
    /\ UNCHANGED <<survivor, calls, scored>>

DiscardTileCall(s, i) ==
    /\ Started
    /\ LET r == discardTile(G, s, i)
       IN  /\ Apply(r.g)
           /\ lastOp' = Op("discardTile", s, r.ret)
           /\ calls' = IF r.ret = "Not your turn" THEN calls ELSE calls + 1
    /\ UNCHANGED <<survivor, starts, scored>>

SkipClaimCall(s) ==
    /\ Started
    /\ LET r == skipClaim(G, s)
       IN  /\ Apply(r.g)
           /\ lastOp' = Op("skipClaim", s, r.ret)
           /\ calls' = IF r.ret = "TypeError" THEN calls ELSE calls + 1
    /\ UNCHANGED <<survivor, starts, scored>>

ResolveClaimsCall ==
    /\ Started
    /\ LET r == resolveClaims(G)
       IN  /\ Apply(r.g)
           /\ survivor' = r.ret
           /\ lastOp' = Op("resolveClaims", r.ret.player, r.ret.type)
    /\ calls' = calls + 1
    /\ UNCHANGED <<starts, scored>>

DeclareKongCall(s, k) ==
    /\ Started
    /\ LET r == declareKong(G, s, kongTiles(k))
       IN  /\ Apply(r.g)
           /\ lastOp' = Op("declareKong", s, r.ret)
    /\ calls' = calls + 1
    /\ UNCHANGED <<survivor, starts, scored>>

\* any caller, any order of calls, at most MaxCalls calls that are not turned
\* away; advanceTurn is only ever called by skipClaim and resolveClaims
Next ==
    \/ \E tiles \in Walls : StartGameCall(tiles)
    \/ calls < MaxCalls /\ \E s \in Seats : \E i \in TileIndices(s) : DiscardTileCall(s, i)
    \/ calls < MaxCalls /\ \E s \in Seats : SkipClaimCall(s)
    \/ calls < MaxCalls /\ ResolveClaimsCall
    \/ calls < MaxCalls /\ \E s \in Seats : \E k \in KongKinds : DeclareKongCall(s, k)

Spec == Init /\ [][Next]_vars

(***************************************************************************)
(* The game as the server drives it: an AI seat discards its first tile    *)
(* when it is its turn (scheduleAITurns, getAIMove), a seat that was       *)
(* offered a claim takes it (claimTile) or declines it (skipClaim), and    *)
(* nothing is called on a game that has ended.                             *)
(***************************************************************************)
hasPendingClaim(s) == \E i \in DOMAIN pendingClaims : pendingClaims[i].player = s

StartPlay(tiles) == starts = 0 /\ StartGameCall(tiles)

AITurn ==
    /\ state = "PLAYING"
    /\ Len(concealed[currentPlayer]) > 0
    /\ DiscardTileCall(currentPlayer, 0)

ClaimTile(s) == hasPendingClaim(s) /\ ResolveClaimsCall

SkipOffer(s) == hasPendingClaim(s) /\ SkipClaimCall(s)

NextPlay ==
    \/ \E tiles \in PlayWalls : StartPlay(tiles)
    \/ AITurn
    \/ \E s \in Seats : ClaimTile(s)
    \/ \E s \in Seats : SkipOffer(s)

SpecPlay == Init /\ [][NextPlay]_vars

(***************************************************************************)
(* The claim arbiter on its own: claims on one discard arrive one by one,  *)
(* in any order, each built the way checkClaims builds it, and             *)
(* HKOSEngine.resolveClaims is applied to the list collected.              *)
(***************************************************************************)
ClaimTypes == {"WIN", "PUNG", "KONG", "CHOW"}

\* a hand below the minimum and a hand at the minimum
ClaimFaans == {MIN_FAAN - 1, MIN_FAAN}

makeClaim(type, p, discarder, faan) ==
    [type |-> type, priority |-> getClaimPriority(type), player |-> p,
     distance |-> getDistance(discarder, p),
     faan |-> IF type = "WIN" THEN faan ELSE 0]

ClaimsOn(discarder) ==
    {makeClaim(type, p, discarder, faan) :
        type \in ClaimTypes, p \in Seats \ {discarder}, faan \in ClaimFaans}

ArbDiscarders == {0, 3}

ArbFuriten == {[s \in Seats |-> s = f] : f \in {NoSeat, 1, 2}}

InitArb ==
    /\ state = "WAITING"
    /\ endReason = "NONE"
    /\ endWinner = NoSeat
    /\ currentPlayer = 0
    /\ turnCount = 0
    /\ liveWall = <<>>
    /\ deadWall = <<>>
    /\ livePointer = 0
    /\ deadPointer = 0
    /\ concealed = [s \in Seats |-> <<>>]
    /\ exposed = [s \in Seats |-> <<>>]
    /\ discards = [s \in Seats |-> <<>>]
    /\ isFuriten \in ArbFuriten
    /\ pendingClaims = <<>>
    /\ lastDiscard = NULL
    /\ lastDiscarder \in ArbDiscarders
    /\ score = [s \in Seats |-> 0]
    /\ survivor = NoClaim
    /\ lastOp = Op("new", NoSeat, "none")
    /\ calls = 0
    /\ starts = 0
    /\ scored = NoScore

Resolved == lastOp.op = "engine.resolveClaims"

CollectClaim(c) ==
    /\ ~Resolved
    /\ Len(pendingClaims) < MaxClaims
    /\ pendingClaims' = Append(pendingClaims, c)
    /\ lastOp' = Op("collect", c.player, c.type)
    /\ UNCHANGED <<state, endReason, endWinner, currentPlayer, turnCount,
                   liveWall, deadWall, livePointer, deadPointer, concealed,
                   exposed, discards, isFuriten, lastDiscard, lastDiscarder,
                   score, survivor, calls, starts, scored>>

EngineResolve ==
    /\ ~Resolved
    /\ survivor' = engineResolveClaims(pendingClaims, lastDiscarder, isFuriten)
    /\ lastOp' = Op("engine.resolveClaims", survivor'.player, survivor'.type)
    /\ UNCHANGED <<state, endReason, endWinner, currentPlayer, turnCount,
                   liveWall, deadWall, livePointer, deadPointer, concealed,
                   exposed, discards, isFuriten, pendingClaims, lastDiscard,
                   lastDiscarder, score, calls, starts, scored>>

NextArb ==
    \/ \E c \in ClaimsOn(lastDiscarder) : CollectClaim(c)
    \/ EngineResolve

SpecArb == InitArb /\ [][NextArb]_vars

(***************************************************************************)
(* Properties of the game under Spec                                       *)
(***************************************************************************)
Accepted(op, s) ==
    /\ lastOp'.op = op
    /\ lastOp'.seat = s
    /\ lastOp'.ret \notin {"Not your turn", "TypeError"}

\* C1: once the state is ENDED it stays ENDED, and no later call changes a
\* hand, a meld, a discard pile, a wall pointer, the current player or the
\* pending claims.
C1_EndedIsTerminal ==
    [][state = "ENDED" =>
          UNCHANGED <<state, concealed, exposed, discards, livePointer,
                      deadPointer, currentPlayer, pendingClaims>>]_vars

CountId(s, t) == Cardinality({i \in DOMAIN s : s[i] = t})

Occurrences(t) ==
    Cardinality({i \in livePointer + 1 .. Len(liveWall) : liveWall[i] = t})
      + Cardinality({i \in deadPointer + 1 .. Len(deadWall) : deadWall[i] = t})
      + SumSeq([s \in 1 .. NumPlayers |-> CountId(concealed[s - 1], t)])
      + SumSeq([s \in 1 .. NumPlayers |->
                   CountId(Flatten([i \in DOMAIN exposed[s - 1] |->
                                       exposed[s - 1][i].tiles]), t)])
      + SumSeq([s \in 1 .. NumPlayers |-> CountId(discards[s - 1], t)])

\* C2: in every state of a started game each of the 136 tile ids is in
\* exactly one place: the undrawn live wall, the undrawn dead wall, a
\* concealed hand, an exposed meld or a discard pile.
C2_TileConservation ==
    Started => \A t \in Tiles : Occurrences(t) = 1

ToDiscard(s) == state = "PLAYING" /\ s = currentPlayer

\* C3: while the game is on, a seat between turns holds 13 tiles plus one per
\* kong it declared, melds included, and the seat that is to discard holds
\* one more.
C3_HandSize ==
    state \in {"PLAYING", "CLAIMING"} =>
        \A s \in Seats :
            totalTiles(hand(G, s))
                = HandSize + kongCount(hand(G, s))
                    + (IF ToDiscard(s) THEN 1 ELSE 0)

WinExecuted ==
    \/ lastOp'.op = "resolveClaims" /\ lastOp'.ret = "WIN"
    \/ endReason # "WIN" /\ endReason' = "WIN"

\* C4: at the step that executes a win, the winner's concealed tiles and
\* melds add up to 14 plus the number of its kongs, whatever was called
\* between the discard and the resolution.
C4_WinCount ==
    [][WinExecuted =>
          validateWinCount([concealed |-> concealed'[endWinner'],
                            exposed |-> exposed'[endWinner']])]_vars

CouldWin(s) ==
    /\ lastDiscard \in Tiles
    /\ checkWinPossibility(G, s, lastDiscard).isValid

OwnDiscard(s) ==
    /\ lastOp'.op = "discardTile"
    /\ lastOp'.seat = s
    /\ lastOp'.ret # "Not your turn"

\* C8: a seat that skips a discard it could have won on becomes furiten, the
\* flag then survives every call that is not that seat's own discard, and the
\* seat's own discard clears it.
C8_FuritenLifecycle ==
    [][\A s \in Seats :
          /\ (Accepted("skipClaim", s) /\ CouldWin(s)) => isFuriten'[s]
          /\ (isFuriten[s] /\ ~OwnDiscard(s)) => isFuriten'[s]
          /\ OwnDiscard(s) => ~isFuriten'[s]]_vars

\* seat 1 declined a win and is still furiten after seat 2 has acted
C8_Witness ==
    /\ isFuriten[1]
    /\ lastOp.op = "skipClaim"
    /\ lastOp.seat = 2

\* C10: a seat's furiten flag changes only when that seat declines a win
\* (to true) or discards (to false); draws, kong replacements, claim
\* resolution and execution, and other seats' calls leave it alone.
C10_FuritenFrame ==
    [][\A s \in Seats :
          isFuriten'[s] # isFuriten[s] =>
              \/ Accepted("skipClaim", s) /\ lastOp'.ret = "DECLINE_WIN"
                   /\ isFuriten'[s]
              \/ OwnDiscard(s) /\ ~isFuriten'[s]]_vars

\* a PUNG was executed while some seat is furiten
C10_Witness ==
    /\ lastOp.op = "resolveClaims"
    /\ lastOp.ret = "PUNG"
    /\ \E s \in Seats : isFuriten[s]

(***************************************************************************)
(* Properties of the claim arbiter under SpecArb                           *)
(***************************************************************************)
ClaimRank(type) ==
    CASE type = "WIN" -> 1
      [] type \in {"PUNG", "KONG"} -> 2
      [] type = "CHOW" -> 3

\* the number of seats to go counter-clockwise from the discarder to seat p
SeatsFromDiscarder(p) ==
    CHOOSE d \in 1 .. NumPlayers - 1 : (lastDiscarder + d) % NumPlayers = p

Eligible(c) ==
    CASE c.type = "WIN" -> ~isFuriten[c.player] /\ c.faan >= MIN_FAAN
      [] c.type = "CHOW" -> SeatsFromDiscarder(c.player) = 1
      [] OTHER -> TRUE

EligibleClaims == {c \in Range(pendingClaims) : Eligible(c)}

NoWorseThan(a, b) ==
    \/ ClaimRank(a.type) < ClaimRank(b.type)
    \/ /\ ClaimRank(a.type) = ClaimRank(b.type)
       /\ SeatsFromDiscarder(a.player) <= SeatsFromDiscarder(b.player)

\* C5: the claim resolveClaims returns is a valid pending claim that no valid
\* pending claim beats on priority (WIN, then PUNG/KONG, then CHOW) or, at
\* equal priority, on distance from the discarder; it returns no claim exactly
\* when no pending claim is valid.
C5_BestClaimSurvives ==
    Resolved =>
        IF EligibleClaims = {} THEN survivor = NoClaim
        ELSE /\ survivor \in EligibleClaims
             /\ \A c \in EligibleClaims : NoWorseThan(survivor, c)

\* a WIN two seats away has beaten a PUNG and a CHOW of the next seat
C5_Witness ==
    /\ Resolved
    /\ survivor.type = "WIN"
    /\ SeatsFromDiscarder(survivor.player) = 2
    /\ \E c \in EligibleClaims :
           c.type = "PUNG" /\ SeatsFromDiscarder(c.player) = 1
    /\ \E c \in EligibleClaims :
           c.type = "CHOW" /\ SeatsFromDiscarder(c.player) = 1

Orders ==
    {f \in [DOMAIN pendingClaims -> DOMAIN pendingClaims] :
        \A i, j \in DOMAIN pendingClaims : f[i] = f[j] => i = j}

Reordered(f) == [i \in DOMAIN pendingClaims |-> pendingClaims[f[i]]]

\* C6: whatever claims were collected on a discard, resolveClaims chooses the
\* same survivor for every order in which they can have arrived.
C6_OrderIndependent ==
    \A f \in Orders :
        engineResolveClaims(Reordered(f), lastDiscarder, isFuriten)
            = engineResolveClaims(pendingClaims, lastDiscarder, isFuriten)

\* C9: the claim resolveClaims returns is never a WIN of a seat that is
\* furiten when the claims are resolved, whatever the faan of the claim.
C9_NoWinWhileFuriten ==
    (Resolved /\ survivor.type = "WIN") => ~isFuriten[survivor.player]

\* the only pending claim was a WIN with enough faan of a furiten seat, and
\* no claim survived
C9_Witness ==
    /\ Resolved
    /\ Len(pendingClaims) = 1
    /\ pendingClaims[1].type = "WIN"
    /\ pendingClaims[1].faan >= MIN_FAAN
    /\ isFuriten[pendingClaims[1].player]
    /\ survivor = NoClaim

(***************************************************************************)
(* Properties of the turn order under SpecPlay                             *)
(***************************************************************************)
WindowOpen == state = "CLAIMING" /\ pendingClaims # <<>>

MeldSurvives ==
    /\ WindowOpen
    /\ lastOp'.op = "resolveClaims"
    /\ lastOp'.ret \in {"PUNG", "KONG", "CHOW"}

NoneSurvives ==
    /\ WindowOpen
    /\ \/ lastOp'.op = "skipClaim" /\ pendingClaims' = <<>>
       \/ lastOp'.op = "resolveClaims" /\ lastOp'.ret = "NONE"

TurnToClaimant ==
    /\ state' = "PLAYING"
    /\ currentPlayer' = survivor'.player
    /\ livePointer' = livePointer

NextSeat == (lastDiscarder + 1) % NumPlayers

NextSeatDraws ==
    /\ livePointer < Len(liveWall)
    /\ currentPlayer' = NextSeat
    /\ livePointer' = livePointer + 1
    /\ concealed'[NextSeat] = Append(concealed[NextSeat], liveWall[livePointer + 1])

EndsWithoutDraw ==
    /\ currentPlayer' = NextSeat
    /\ livePointer' = livePointer
    /\ concealed' = concealed
    /\ state' = "ENDED"
    /\ endReason' = "EXHAUSTIVE_DRAW"

\* C7 as stated: when a PUNG, KONG or CHOW claim survives, play resumes with
\* the claimant, who has drawn nothing; when no claim survives, the seat after
\* the discarder becomes current and draws one live-wall tile.
C7_TurnAfterWindow ==
    [][/\ MeldSurvives => TurnToClaimant
       /\ NoneSurvives => NextSeatDraws]_vars

\* C7 amended: as above, except that when no claim survives and the live wall
\* is exhausted, the seat after the discarder draws nothing and the game ends
\* in an exhaustive draw.
C7_TurnAfterWindowUnlessExhausted ==
    [][/\ MeldSurvives => TurnToClaimant
       /\ NoneSurvives =>
              IF livePointer < Len(liveWall) THEN NextSeatDraws
              ELSE EndsWithoutDraw]_vars

\* a PUNG claim of a seat other than the next one has been executed and that
\* seat is to discard
C7_Witness ==
    /\ lastOp.op = "resolveClaims"
    /\ lastOp.ret = "PUNG"
    /\ state = "PLAYING"
    /\ currentPlayer = survivor.player
    /\ currentPlayer # NextSeat


(***************************************************************************)
(* Properties of discards, wins and walls under Spec                       *)
(***************************************************************************)
DiscardRefused ==
    /\ lastOp'.op = "discardTile"
    /\ lastOp'.ret # "success"

\* C11: a discard by a seat that is not the current player, or of a tile that
\* is not in the seat's hand, is refused with 'Not your turn' or 'Tile not in
\* hand' and leaves hands, melds, discard piles, lastDiscard, furiten flags,
\* pending claims, wall pointers and the state as they were.
C11_RefusedDiscardChangesNothing ==
    [][DiscardRefused =>
          /\ lastOp'.ret \in {"Not your turn", "Tile not in hand"}
          /\ UNCHANGED <<concealed, exposed, discards, lastDiscard, lastDiscarder,
                         isFuriten, pendingClaims, livePointer, deadPointer,
                         state>>]_vars

winnerHand == [concealed |-> concealed'[endWinner'], exposed |-> exposed'[endWinner']]

\* C12: the hand a win is executed on scores at least 3 faan.
C12_NoWinBelowMinFaan ==
    [][WinExecuted =>
          calculateScore(winnerHand, lastOp'.op # "resolveClaims",
                         seatWind(endWinner'), prevailingWind).totalFaan
              >= MIN_FAAN]_vars

(***************************************************************************)
(* Whole games in which the human seat also declares kongs.  Only a client *)
(* sends declareKong, and the server passes it on in any state; the calls  *)
(* are explored in the last draws of the live wall, where both walls can   *)
(* run out.                                                                *)
(***************************************************************************)
\* seat 1 is dealt thirteen bamboo tiles, the dealer discards 8D first, which
\* nobody can claim, and seat 1 then draws 1B
SelfDrawWall ==
    Exchange(Unshuffled,
             << <<37, 23>>, <<41, 27>>, <<45, 31>>, <<49, 35>>, <<0, 100>>,
                <<53, 100>> >>)

EndWalls == {LateClaimWall, SelfDrawWall}

\* kongs are declared when at most this many live-wall tiles are left
MaxKongDraws == 1

\* one declaration more than the dead wall has tiles
MaxKongs == DEAD_WALL_SIZE + 1

LateKong(k) ==
    /\ livePointer >= Len(liveWall) - MaxKongDraws
    /\ Len(exposed[0]) < MaxKongs
    /\ DeclareKongCall(0, k)

NextWalls ==
    \/ \E tiles \in EndWalls : StartPlay(tiles)
    \/ AITurn
    \/ \E s \in Seats : ClaimTile(s)
    \/ \E s \in Seats : SkipOffer(s)
    \/ \E k \in KongKinds : LateKong(k)

SpecWalls == Init /\ [][NextWalls]_vars

(***************************************************************************)
(* Properties of draws and exhaustion under SpecWalls                      *)
(***************************************************************************)
handAfter(p) == [concealed |-> concealed'[p], exposed |-> exposed'[p]]

SelfDrawWin(p) ==
    /\ validateWinCount(handAfter(p))
    /\ calculateScore(handAfter(p), TRUE, seatWind(p), prevailingWind).isValid

LiveDraw(p) ==
    /\ lastOp'.op # "startGame"
    /\ livePointer' = livePointer + 1
    /\ currentPlayer' = p

KongDraw(p) ==
    /\ lastOp'.op = "declareKong"
    /\ lastOp'.seat = p
    /\ deadPointer' = deadPointer + 1

\* C13: when the hand a seat holds after a live-wall draw or a kong
\* replacement (the drawn tile included once) has 14 tiles plus one per kong
\* and scores at least 3 faan as a self-draw, the draw reports the win: an AI
\* seat's game ends as its WIN, a kong declaration returns canWin.
C13_SelfDrawWinReported ==
    [][\A p \in Seats :
          /\ (LiveDraw(p) /\ isAI[p] /\ SelfDrawWin(p))
                 => (endReason' = "WIN" /\ endWinner' = p)
          /\ (KongDraw(p) /\ SelfDrawWin(p)) => lastOp'.ret = "canWin"]_vars

TurnAdvanceAttempted ==
    \/ lastOp'.op = "discardTile" /\ lastOp'.ret = "success" /\ pendingClaims' = <<>>
    \/ lastOp'.op = "skipClaim" /\ lastOp'.ret # "TypeError" /\ pendingClaims' = <<>>
    \/ lastOp'.op = "resolveClaims" /\ lastOp'.ret = "NONE"

NoTileGiven == \A s \in Seats : Len(concealed'[s]) <= Len(concealed[s])

EndsExhausted ==
    /\ state' = "ENDED"
    /\ endReason' = "EXHAUSTIVE_DRAW"
    /\ NoTileGiven
    /\ livePointer' = livePointer
    /\ deadPointer' = deadPointer

\* C16: a turn advance on an exhausted live wall and a kong declaration on an
\* exhausted dead wall end the game in an exhaustive draw, give no seat a
\* tile and do not throw.
C16_ExhaustionEndsGame ==
    [][/\ (TurnAdvanceAttempted /\ livePointer >= Len(liveWall)) => EndsExhausted
       /\ (lastOp'.op = "declareKong" /\ deadPointer >= Len(deadWall))
              => (EndsExhausted /\ lastOp'.ret = "Dead wall exhausted")]_vars

\* both walls are used up and the last kong declaration was turned away
C16_Witness ==
    /\ lastOp.op = "declareKong"
    /\ lastOp.ret = "Dead wall exhausted"
    /\ livePointer = Len(liveWall)
    /\ deadPointer = Len(deadWall)
    /\ state = "ENDED"
    /\ endReason = "EXHAUSTIVE_DRAW"

(***************************************************************************)
(* Kong replacement under Spec                                             *)
(***************************************************************************)
\* C14: a kong declaration gives the declaring seat the dead-wall tile at
\* deadPointer and advances deadPointer by one; livePointer and the live wall
\* are as before.
C14_KongDrawsFromDeadWall ==
    [][lastOp'.op = "declareKong" =>
          /\ livePointer' = livePointer
          /\ liveWall' = liveWall
          /\ deadWall' = deadWall
          /\ deadPointer < Len(deadWall) =>
                 /\ deadPointer' = deadPointer + 1
                 /\ concealed'[lastOp'.seat]
                        = Append(concealed[lastOp'.seat], deadWall[deadPointer + 1])]_vars

\* a seat has declared a second kong: two dead-wall tiles are gone
C14_Witness ==
    /\ lastOp.op = "declareKong"
    /\ deadPointer = 2
    /\ \E s \in Seats : Len(exposed[s]) = 2

(***************************************************************************)
(* startGame called again on a started game: the method has no guard, and  *)
(* the calls around it are the ones of Spec                                *)
(***************************************************************************)
\* startGame calls after the first
MaxRestarts == 1

\* calls between and after the starts
MaxRestartCalls == 2

StartAgain(tiles) ==
    /\ Started
    /\ starts < MaxRestarts + 1
    /\ Apply(startGame(G, tiles))
    /\ lastOp' = Op("startGame", NoSeat, "success")
    /\ starts' = starts + 1
    /\ UNCHANGED <<survivor, calls, scored>>

NextRestart ==
    \/ \E tiles \in Walls : StartPlay(tiles)
    \/ \E tiles \in PlayWalls : StartAgain(tiles)
    \/ calls < MaxRestartCalls /\ \E s \in Seats : \E i \in TileIndices(s) : DiscardTileCall(s, i)
    \/ calls < MaxRestartCalls /\ \E s \in Seats : SkipClaimCall(s)
    \/ calls < MaxRestartCalls /\ ResolveClaimsCall
    \/ calls < MaxRestartCalls /\ \E s \in Seats : \E k \in KongKinds : DeclareKongCall(s, k)

SpecRestart == Init /\ [][NextRestart]_vars

\* C15: the wall pointers never decrease, a step advances at most one of them
\* and by one (the deal of startGame aside, which draws 53 tiles), and
\* 0 <= livePointer <= 120 and 0 <= deadPointer <= 16 throughout.
C15_PointersMonotone ==
    [][/\ livePointer' >= livePointer
       /\ deadPointer' >= deadPointer
       /\ lastOp'.op # "startGame" =>
              (livePointer' - livePointer) + (deadPointer' - deadPointer) <= 1
       /\ livePointer' \in 0 .. LIVE_WALL_SIZE
       /\ deadPointer' \in 0 .. DEAD_WALL_SIZE]_vars

RoundRobin(wall, p) ==
    [i \in 1 .. 13 |-> wall[4 * (i - 1) + p + 1]]
        \o (IF p = dealerPosition THEN <<wall[53]>> ELSE <<>>)

C18_StartOnlyOnce ==
    [][(lastOp'.op = "startGame" /\ state \in {"PLAYING", "CLAIMING", "ENDED"}) =>
          UNCHANGED <<liveWall, deadWall, livePointer, deadPointer, concealed>>]_vars

(***************************************************************************)
(* CHOW claims under SpecArb                                               *)
(***************************************************************************)
\* C19: the claim resolveClaims returns is a CHOW only for the seat that
\* follows the discarder.
C19_ChowOnlyNextSeat ==
    (Resolved /\ survivor.type = "CHOW") =>
        survivor.player = (lastDiscarder + 1) % NumPlayers

\* a CHOW of another seat arrived first and the CHOW of the next seat survived
C19_Witness ==
    /\ Resolved
    /\ survivor.type = "CHOW"
    /\ Len(pendingClaims) >= 2
    /\ pendingClaims[1].type = "CHOW"
    /\ pendingClaims[1].player # (lastDiscarder + 1) % NumPlayers

(***************************************************************************)
(* The claim window under Spec                                             *)
(***************************************************************************)
\* the seats that were offered a claim and have not skipped: skipClaim removes
\* the claims of the seat that skips
Claimants == {pendingClaims[i].player : i \in DOMAIN pendingClaims}

\* C20: a resolveClaims call made while two or more seats still hold an
\* offer, of which at most the caller has responded, executes no claim and
\* does not advance the turn.
C20_ResolveWaitsForResponses ==
    [][(lastOp'.op = "resolveClaims"
          /\ state = "CLAIMING"
          /\ Cardinality(Claimants) >= 2) =>
          UNCHANGED <<concealed, exposed, currentPlayer, state, pendingClaims,
                      livePointer>>]_vars

(***************************************************************************)
(* Kong declarations and exposed melds under Spec                          *)
(***************************************************************************)
\* the seat does not hold every tile it names
NotHeld(s, tiles) == \E i \in DOMAIN tiles : tiles[i] \notin Range(concealed[s])

KongAccepted == lastOp'.ret \in {"success", "canWin"}

\* C22: a kong declaration by a seat that is not the current player, or made
\* while the game is not PLAYING, or naming tiles the seat does not hold, is
\* rejected and leaves every hand, every exposed meld, both wall pointers and
\* the state unchanged.
C22_InvalidKongRejected ==
    [][\A s \in Seats : \A k \in KongKinds :
          (DeclareKongCall(s, k)
             /\ (s # currentPlayer \/ state # "PLAYING" \/ NotHeld(s, kongTiles(k)))) =>
             (~KongAccepted
                /\ UNCHANGED <<concealed, exposed, livePointer, deadPointer, state>>)]_vars

SameSuit(tiles) == \A i \in DOMAIN tiles : Suit(tiles[i]) = Suit(tiles[1])

Identical(tiles) == \A i \in DOMAIN tiles : Kind(tiles[i]) = Kind(tiles[1])

Consecutive(tiles) ==
    LET ranks == {Rank(tiles[i]) : i \in DOMAIN tiles}
    IN  /\ \A i \in DOMAIN tiles : TileType(tiles[i]) = "SUITED"
        /\ \E r \in 1 .. 7 : ranks = {r, r + 1, r + 2}

WellFormed(meld) ==
    CASE meld.type = "CHOW" ->
            Len(meld.tiles) = 3 /\ SameSuit(meld.tiles) /\ Consecutive(meld.tiles)
      [] meld.type = "PUNG" -> Len(meld.tiles) = 3 /\ Identical(meld.tiles)
      [] meld.type = "KONG" -> Len(meld.tiles) = 4 /\ Identical(meld.tiles)
      [] OTHER -> FALSE

\* the meld a step adds to the exposed list of seat s comes from the hand of
\* s or is the discard that was claimed
FromOwner(s) ==
    Len(exposed'[s]) > Len(exposed[s]) =>
        LET meld == exposed'[s][Len(exposed'[s])]
        IN  \A t \in Range(meld.tiles) :
                t \in Range(concealed[s]) \/ t = lastDiscard

\* C23: in every reachable state every exposed meld is well formed (a CHOW is
\* three consecutive tiles of one suit, a PUNG three and a KONG four identical
\* tiles), and every tile of a meld came from its owner's concealed hand or
\* from the claimed discard.
C23_MeldsWellFormed ==
    /\ [](\A s \in Seats : \A i \in DOMAIN exposed[s] : WellFormed(exposed[s][i]))
    /\ [][\A s \in Seats : FromOwner(s)]_vars

(***************************************************************************)
(* The scoring functions on their own: a hand is drawn from the hands      *)
(* below and one of calculateScore, isThirteenOrphans, isSevenPairs,       *)
(* checkWindSets and calculatePoints is applied to it.                     *)
(***************************************************************************)
\* the longest list of exposed melds of an input hand
MaxMelds == 2
\* the largest Faan count converted to points
MaxFaan == 14

\* the tiles of a sequence of kinds: the n-th tile of a kind is its n-th copy
HandOf(ks) ==
    [i \in DOMAIN ks |->
        4 * ks[i] + Cardinality({j \in 1 .. (i - 1) : ks[j] = ks[i]})]

\* 1B 9B 1C 9C 1D 9D E S W N RED GREEN WHITE and a second tile of kind d
OrphanHand(d) == <<0, 8, 9, 17, 18, 26, 27, 28, 29, 30, 31, 32, 33, d>>

\* pairs of 2B .. 8B
BambooPairs == <<1, 1, 2, 2, 3, 3, 4, 4, 5, 5, 6, 6, 7, 7>>
\* pairs of 1B 1C 1D E RED 5B 5C
MixedPairs == <<0, 0, 9, 9, 18, 18, 27, 27, 31, 31, 4, 4, 13, 13>>
\* four 2B and five pairs, four 2B and six pairs
QuadFivePairs == <<1, 1, 1, 1, 2, 2, 3, 3, 4, 4, 5, 5, 6, 6>>
QuadSixPairs == <<1, 1, 1, 1, 2, 2, 3, 3, 4, 4, 5, 5, 6, 6, 7, 7>>

\* one tile of a hand exchanged for a 2B or an E
SubstAt == {1, 14}
SubstKinds == {1, WindE}
Variants(ks) == {ks} \cup {[ks EXCEPT ![i] = k] : i \in SubstAt, k \in SubstKinds}

SpecialHands ==
    UNION {Variants(ks) :
             ks \in {OrphanHand(d) : d \in Orphans}
                      \cup {BambooPairs, MixedPairs, QuadFivePairs, QuadSixPairs}}

\* 5B .. 8B only; C and D runs, three W and two GREEN
RegularHands ==
    {<<4, 5, 6, 4, 5, 6, 7, 7, 4, 5, 6, 5, 6, 7>>,
     <<10, 11, 12, 19, 20, 21, 29, 29, 29, 32, 32, 13, 14, 15>>}

meldOf(type, k) ==
    [type |-> type,
     tiles |-> IF type = "CHOW" THEN <<4 * k, 4 * (k + 1), 4 * (k + 2)>>
               ELSE IF type = "PUNG" THEN <<4 * k + 1, 4 * k + 2, 4 * k + 3>>
               ELSE <<4 * k, 4 * k + 1, 4 * k + 2, 4 * k + 3>>]

\* sets of E and S, a concealed kong of E, a set of RED, a set of 1B and the
\* run 2B 3B 4B
Melds ==
    {meldOf(type, k) : type \in {"PUNG", "KONG"}, k \in {WindE, WindE + 1}}
      \cup {meldOf("CONCEALED_KONG", WindE), meldOf("PUNG", 31),
            meldOf("PUNG", 0), meldOf("CHOW", 1)}

\* lists of melds of different kinds
MeldLists ==
    {e \in UNION {[1 .. n -> Melds] : n \in 0 .. MaxMelds} :
        \A i \in DOMAIN e : \A j \in DOMAIN e :
            i # j => Kind(e[i].tiles[1]) # Kind(e[j].tiles[1])}

Hands ==
    {[concealed |-> HandOf(ks), exposed |-> <<>>] : ks \in SpecialHands}
      \cup {[concealed |-> HandOf(ks), exposed |-> <<meldOf("PUNG", WindE + 1)>>] :
              ks \in {OrphanHand(30), BambooPairs}}
      \cup {[concealed |-> HandOf(SubSeq(ks, 1, 14 - 3 * Len(e))), exposed |-> e] :
              ks \in RegularHands, e \in MeldLists}

SeatWinds == {seatWind(s) : s \in Seats}
PrevailingWinds == {WindE, WindE + 1}
Faans == (0 - 1) .. MaxFaan
Points == {calculatePoints(faan) : faan \in Faans}

gameVars ==
    <<state, endReason, endWinner, currentPlayer, turnCount, liveWall, deadWall,
      livePointer, deadPointer, concealed, exposed, discards, isFuriten,
      pendingClaims, lastDiscard, lastDiscarder, score, survivor, lastOp, calls,
      starts>>

InitScore ==
    /\ state = "WAITING"
    /\ endReason = "NONE"
    /\ endWinner = NoSeat
    /\ currentPlayer = 0
    /\ turnCount = 0
    /\ liveWall = <<>>
    /\ deadWall = <<>>
    /\ livePointer = 0
    /\ deadPointer = 0
    /\ concealed = [s \in Seats |-> <<>>]
    /\ exposed = [s \in Seats |-> <<>>]
    /\ discards = [s \in Seats |-> <<>>]
    /\ isFuriten = [s \in Seats |-> FALSE]
    /\ pendingClaims = <<>>
    /\ lastDiscard = NULL
    /\ lastDiscarder = NoSeat
    /\ score = [s \in Seats |-> 0]
    /\ survivor = NoClaim
    /\ lastOp = Op("new", NoSeat, "none")
    /\ calls = 0
    /\ starts = 0
    /\ scored \in {[op |-> "hand", hand |-> h] : h \in Hands}

CalculateScoreCall(isSelfDraw, seatW, prevW) ==
    /\ scored.op = "hand"
    /\ scored' = [op |-> "calculateScore", hand |-> scored.hand,
                  isSelfDraw |-> isSelfDraw, seatWind |-> seatW,
                  prevailingWind |-> prevW,
                  result |-> calculateScore(scored.hand, isSelfDraw, seatW, prevW)]
    /\ UNCHANGED gameVars

IsThirteenOrphansCall ==
    /\ scored.op = "hand"
    /\ scored' = [op |-> "isThirteenOrphans", hand |-> scored.hand,
                  result |-> isThirteenOrphans(scored.hand)]
    /\ UNCHANGED gameVars

IsSevenPairsCall ==
    /\ scored.op = "hand"
    /\ scored' = [op |-> "isSevenPairs", hand |-> scored.hand,
                  result |-> isSevenPairs(scored.hand)]
    /\ UNCHANGED gameVars

CheckWindSetsCall(seatW, prevW) ==
    /\ scored.op = "hand"
    /\ scored' = [op |-> "checkWindSets", hand |-> scored.hand,
                  seatWind |-> seatW, prevailingWind |-> prevW,
                  result |-> checkWindSets(scored.hand, seatW, prevW)]
    /\ UNCHANGED gameVars

CalculatePointsCall(faan) ==
    /\ scored.op = "hand"
    /\ scored' = [op |-> "calculatePoints", hand |-> scored.hand, faan |-> faan,
                  result |-> calculatePoints(faan)]
    /\ UNCHANGED gameVars

CalculatePaymentsCall(winnerWind, loserWind, points) ==
    /\ scored.op = "hand"
    /\ scored' = [op |-> "calculatePayments", hand |-> scored.hand,
                  winner |-> winnerWind, loser |-> loserWind, points |-> points,
                  result |-> calculatePayments(winnerWind, loserWind, points)]
    /\ UNCHANGED gameVars

NextScore ==
    \/ \E isSelfDraw \in BOOLEAN : \E seatW \in SeatWinds : \E prevW \in PrevailingWinds :
          CalculateScoreCall(isSelfDraw, seatW, prevW)
    \/ IsThirteenOrphansCall
    \/ IsSevenPairsCall
    \/ \E seatW \in SeatWinds : \E prevW \in PrevailingWinds :
          CheckWindSetsCall(seatW, prevW)
    \/ \E faan \in Faans : CalculatePointsCall(faan)
    \/ \E winnerWind \in SeatWinds : \E loserWind \in SeatWinds : \E points \in Points :
          CalculatePaymentsCall(winnerWind, loserWind, points)

SpecScore == InitScore /\ [][NextScore]_vars

(***************************************************************************)
(* Properties of the scoring functions under SpecScore                     *)
(***************************************************************************)
PointsTable == <<1, 2, 4, 8, 16, 32, 64, 128, 256, 512>>

KindCount(h, k) == Cardinality({i \in DOMAIN h.concealed : h.concealed[i] \div 4 = k})

\* no exposed meld, 14 concealed tiles: the 13 orphans and a second tile of
\* one of them
OrphanShape(h) ==
    /\ h.exposed = <<>>
    /\ Len(h.concealed) = 14
    /\ \E d \in {0, 8, 9, 17, 18, 26, 27, 28, 29, 30, 31, 32, 33} :
          \A k \in 0 .. 33 :
              KindCount(h, k) =
                  IF k = d THEN 2
                  ELSE IF k \in {0, 8, 9, 17, 18, 26, 27, 28, 29, 30, 31, 32, 33}
                  THEN 1 ELSE 0

\* no exposed meld, 14 concealed tiles: 7 kinds, two tiles of each
PairsShape(h) ==
    /\ h.exposed = <<>>
    /\ Len(h.concealed) = 14
    /\ \A k \in 0 .. 33 : KindCount(h, k) \in {0, 2}

OnlyEntry(pattern, faan) == <<[pattern |-> pattern, faan |-> faan]>>

\* C27: calculateScore gives a Thirteen Orphans hand exactly 13 Faan and a
\* Seven Pairs hand exactly 4 Faan, with a single breakdown entry, whatever
\* the flush, self-draw and wind context; the other patterns are accumulated
\* only for hands that are neither.
C27_SpecialHandsShortCircuit ==
    scored.op = "calculateScore" =>
        LET h == scored.hand
            r == scored.result
        IN  /\ OrphanShape(h) =>
                  r.totalFaan = 13 /\ r.breakdown = OnlyEntry("Thirteen Orphans", 13)
            /\ PairsShape(h) =>
                  r.totalFaan = 4 /\ r.breakdown = OnlyEntry("Seven Pairs", 4)
            /\ (~OrphanShape(h) /\ ~PairsShape(h)) =>
                  /\ \A i \in DOMAIN r.breakdown :
                        r.breakdown[i].pattern \notin {"Thirteen Orphans", "Seven Pairs"}
                  /\ r.totalFaan =
                        SumSeq([i \in DOMAIN r.breakdown |-> r.breakdown[i].faan])
                  /\ scored.isSelfDraw <=>
                        \E i \in DOMAIN r.breakdown :
                            r.breakdown[i].pattern = "Self-Draw"

\* seven pairs of one suit, drawn by the winner, scored 4 Faan
C27_Witness ==
    /\ scored.op = "calculateScore"
    /\ PairsShape(scored.hand)
    /\ checkFullFlush(scored.hand) = 7
    /\ scored.isSelfDraw
    /\ scored.result.totalFaan = 4

\* C28: isThirteenOrphans accepts a hand exactly when it has no exposed meld
\* and its 14 concealed tiles are the 13 orphans with exactly one of them
\* twice; a hand with a foreign 14th tile, a missing orphan or an exposed
\* meld is rejected.
C28_ThirteenOrphansExact ==
    scored.op = "isThirteenOrphans" => (scored.result <=> OrphanShape(scored.hand))

\* a hand with every orphan and a foreign 14th tile was rejected
C28_Witness ==
    /\ scored.op = "isThirteenOrphans"
    /\ scored.hand.exposed = <<>>
    /\ Len(scored.hand.concealed) = 14
    /\ \A k \in Orphans : KindCount(scored.hand, k) = 1
    /\ ~scored.result

\* C29: isSevenPairs accepts a hand exactly when it has no exposed meld and
\* its 14 concealed tiles are 7 different kinds, two tiles of each; a hand
\* with four tiles of one kind is rejected.
C29_SevenPairsExact ==
    scored.op = "isSevenPairs" => (scored.result <=> PairsShape(scored.hand))

\* four of a kind and five pairs were rejected
C29_Witness ==
    /\ scored.op = "isSevenPairs"
    /\ scored.hand.exposed = <<>>
    /\ Len(scored.hand.concealed) = 14
    /\ \E q \in 0 .. 33 :
          /\ KindCount(scored.hand, q) = 4
          /\ \A k \in (0 .. 33) \ {q} : KindCount(scored.hand, k) \in {0, 2}
    /\ ~scored.result

\* the exposed PUNGs and KONGs of a wind
WindSets(h) ==
    {i \in DOMAIN h.exposed :
        /\ h.exposed[i].type \in {"PUNG", "KONG"}
        /\ h.exposed[i].tiles[1] \div 4 \in 27 .. 30}

\* C30: checkWindSets adds, for each exposed PUNG or KONG of a wind, 2 Faan
\* when the wind is both the seat wind and the prevailing wind, 1 Faan when
\* it is exactly one of them and 0 otherwise; other melds add nothing.
C30_WindSetFaan ==
    scored.op = "checkWindSets" =>
        LET h == scored.hand
            wind(i) == h.exposed[i].tiles[1] \div 4
            both == {i \in WindSets(h) :
                        wind(i) = scored.seatWind /\ wind(i) = scored.prevailingWind}
            one == {i \in WindSets(h) :
                        (wind(i) = scored.seatWind) # (wind(i) = scored.prevailingWind)}
        IN  scored.result = 2 * Cardinality(both) + Cardinality(one)

\* a set of the double wind next to a meld that adds nothing
C30_Witness ==
    /\ scored.op = "checkWindSets"
    /\ scored.seatWind = scored.prevailingWind
    /\ Len(scored.hand.exposed) = 2
    /\ Cardinality(WindSets(scored.hand)) = 1
    /\ scored.result = 2

(***************************************************************************)
(* Wall reads under Spec                                                   *)
(***************************************************************************)
\* the indices (from 0) of the wall elements a step reads: startGame,
\* advanceTurn and declareKong read wall[pointer++], so the element at index i
\* is read while the pointer is i
LiveReads == livePointer .. (livePointer' - 1)
DeadReads == deadPointer .. (deadPointer' - 1)

\* C25: every read of a wall element by the game (deal, turn draw, kong
\* replacement) is guarded by the information-barrier check, which rejects
\* every index at or beyond the caller's current pointer: no step reads an
\* element the check throws on.
C25_WallReadsPassBarrier ==
    [][/\ \A i \in LiveReads : ~enforceInformationBarrier(i, i)
       /\ \A i \in DeadReads : ~enforceInformationBarrier(i, i)]_vars

(***************************************************************************)
(* The views of the game: MahjongGame.getGameState and the view the server *)
(* builds for one player                                                   *)
(***************************************************************************)
\* a view that carries every concealed hand, to show that C24 rests on the
\* view holding concealedCount alone
getGameStateWithHands(g) ==
    [state |-> g.state, currentPlayer |-> g.currentPlayer,
     prevailingWind |-> prevailingWind, turnCount |-> g.turnCount,
     liveWallCount |-> Len(g.liveWall) - g.livePointer,
     deadWallCount |-> Len(g.deadWall) - g.deadPointer,
     players |-> [p \in Seats |->
                    [isAI |-> isAI[p], wind |-> seatWind(p), position |-> p,
                     concealedCount |-> Len(g.concealed[p]),
                     concealed |-> g.concealed[p],
                     exposed |-> g.exposed[p], discards |-> g.discards[p],
                     isFuriten |-> g.isFuriten[p]]],
     lastDiscard |-> g.lastDiscard, pendingClaims |-> Len(g.pendingClaims)]

getGameState(g) ==
    [state |-> g.state, currentPlayer |-> g.currentPlayer,
     prevailingWind |-> prevailingWind, turnCount |-> g.turnCount,
     liveWallCount |-> Len(g.liveWall) - g.livePointer,
     deadWallCount |-> Len(g.deadWall) - g.deadPointer,
     players |-> [p \in Seats |->
                    [isAI |-> isAI[p], wind |-> seatWind(p), position |-> p,
                     concealedCount |-> Len(g.concealed[p]),
                     exposed |-> g.exposed[p], discards |-> g.discards[p],
                     isFuriten |-> g.isFuriten[p]]],
     lastDiscard |-> g.lastDiscard, pendingClaims |-> Len(g.pendingClaims)]

\* getGameState(game, playerId) of the server: the view sent to one player
playerGameState(g, playerId) ==
    [state |-> g.state, currentPlayer |-> g.currentPlayer,
     prevailingWind |-> prevailingWind, dealerPosition |-> dealerPosition,
     turnCount |-> g.turnCount,
     liveWallCount |-> Len(g.liveWall) - g.livePointer,
     deadWallCount |-> Len(g.deadWall) - g.deadPointer,
     players |-> [p \in Seats |->
                    [isAI |-> isAI[p], wind |-> seatWind(p), position |-> p,
                     concealedCount |-> Len(g.concealed[p]),
                     concealed |-> IF p = playerId THEN g.concealed[p] ELSE <<>>,
                     exposed |-> g.exposed[p], discards |-> g.discards[p],
                     isFuriten |-> g.isFuriten[p], isYou |-> p = playerId]],
     lastDiscard |-> g.lastDiscard, pendingClaims |-> Len(g.pendingClaims),
     canClaim |-> g.state = "CLAIMING"
                    /\ \E i \in DOMAIN g.pendingClaims :
                          g.pendingClaims[i].player = playerId]

(***************************************************************************)
(* What the views show, under SpecPlay                                     *)
(***************************************************************************)
Swapped(s, i, j) ==
    [k \in DOMAIN s |-> IF k = i THEN s[j] ELSE IF k = j THEN s[i] ELSE s[k]]

\* the game with two undrawn tiles of a wall exchanged
WallVariants ==
    {[G EXCEPT !.liveWall = Swapped(@, i, i + 1)] :
        i \in {k \in {livePointer + 1, Len(liveWall) - 1} :
                  k > livePointer /\ k + 1 <= Len(liveWall)}}
      \cup {[G EXCEPT !.deadWall = Swapped(@, i, i + 1)] :
              i \in {k \in {deadPointer + 1} : k + 1 <= Len(deadWall)}}

\* the game with the first concealed tiles of two seats exchanged
HandVariants ==
    {[G EXCEPT !.concealed[a] = [@ EXCEPT ![1] = concealed[b][1]],
               !.concealed[b] = [@ EXCEPT ![1] = concealed[a][1]]] :
        a \in {p \in Seats : concealed[p] # <<>>},
        b \in {p \in Seats : concealed[p] # <<>>}}

Hidden == WallVariants \cup HandVariants

\* C24: the public state shows of every seat only the number of its
\* concealed tiles and of each wall only the number of tiles left: games that
\* differ only in which tiles are concealed where or in the order of the
\* undrawn wall tiles have the same public state, and the private state of
\* seat s shows, beyond that, the concealed tiles of seat s and of no other
\* seat.
C24_ViewsHideConcealed ==
    /\ \A v \in Hidden : getGameState(v) = getGameState(G)
    /\ \A s \in Seats :
          /\ playerGameState(G, s).players[s].concealed = concealed[s]
          /\ \A v \in Hidden :
                v.concealed[s] = concealed[s] =>
                    playerGameState(v, s) = playerGameState(G, s)

\* a game in play of which one variant has other hands and one another wall
C24_Witness ==
    /\ state = "PLAYING"
    /\ turnCount > 0
    /\ \E v \in HandVariants : v.concealed # concealed
    /\ \E v \in WallVariants : v.liveWall # liveWall

(***************************************************************************)
(* HKOSGame (src/src/hkosgame.js): the second game class.  It keeps the    *)
(* walls as arrays that shrink (shift) and counts the tiles taken in       *)
(* drawPointer, modelled by livePointer.  lastDraw, the scores and the     *)
(* move histories are not modelled; the tile startGame draws for the       *)
(* dealer is stored in lastDraw only.  HKOSGame is written against an      *)
(* engine whose methods validateClaim, resetFuriten, turnStart, handleKong *)
(* and evaluateWinCondition and whose resolveClaims(claims, discarder) are *)
(* not part of the source: these follow the specification.                 *)
(***************************************************************************)
\* the calls made on a started game
MaxHKCalls == 3

\* resetFuriten: the player's own discard clears the flag
resetFuriten(g, p) == [g EXCEPT !.isFuriten[p] = FALSE]

\* turnStart: the next tile of the live wall, or an exhaustive draw
turnStart(g) ==
    IF g.liveWall = <<>> THEN [action |-> "EXHAUSTIVE_DRAW", tile |-> NULL]
    ELSE [action |-> "DRAW", tile |-> Head(g.liveWall)]

\* handleKong: the next tile of the dead wall, or an exhaustive draw
handleKong(g) ==
    IF g.deadWall = <<>>
    THEN [success |-> FALSE, action |-> "EXHAUSTIVE_DRAW", tile |-> NULL]
    ELSE [success |-> TRUE, action |-> "DRAW", tile |-> Head(g.deadWall)]

\* evaluateWinCondition: the hand with the winning tile has the tile count of
\* a win and scores the minimum
evaluateWinCondition(g, p, tile, isSelfDraw) ==
    LET h == [concealed |-> IF isSelfDraw THEN g.concealed[p]
                            ELSE Append(g.concealed[p], tile),
              exposed |-> g.exposed[p]]
    IN  validateWinCount(h)
          /\ calculateScore(h, isSelfDraw, seatWind(p), prevailingWind).isValid

\* validateClaim: WIN needs a winning hand and no furiten, PUNG two and KONG
\* three concealed tiles like the discard, CHOW the seat after the discarder
\* and two concealed tiles that make a run with the discard
validateClaim(g, claim, discarder) ==
    LET p == claim.playerPosition
        like == CountKey(g.concealed[p], getTileKey(claim.tile))
        has(k) == k \in Kinds /\ k \div 9 = Kind(claim.tile) \div 9
                    /\ CountKey(g.concealed[p], k) > 0
        k0 == Kind(claim.tile)
    IN  CASE claim.type = "WIN_HU" ->
                ~g.isFuriten[p] /\ evaluateWinCondition(g, p, claim.tile, FALSE)
          [] claim.type = "PUNG" -> like >= 2
          [] claim.type = "KONG_EXPOSED" -> like >= 3
          [] claim.type = "CHOW" ->
                /\ p = (discarder + 1) % NumPlayers
                /\ TileType(claim.tile) = "SUITED"
                /\ \/ has(k0 - 2) /\ has(k0 - 1)
                   \/ has(k0 - 1) /\ has(k0 + 1)
                   \/ has(k0 + 1) /\ has(k0 + 2)
          [] OTHER -> FALSE

hkClaimPriority(type) ==
    IF type = "WIN_HU" THEN 1 ELSE IF type = "CHOW" THEN 3 ELSE 2

\* resolveClaims(claims, discarder) of the engine: the claim of the highest
\* priority, the nearest seat first, the earliest of equal claims
hkResolveClaims(claims, discarder) ==
    LET key(i) == 4 * hkClaimPriority(claims[i].type)
                    + getDistance(discarder, claims[i].playerPosition)
        best == CHOOSE i \in DOMAIN claims :
                    \A j \in DOMAIN claims :
                        key(i) < key(j) \/ (key(i) = key(j) /\ i <= j)
    IN  claims[best]

HKOSGame_startGame(g, tiles) ==
    LET w == splitWall(tiles)
        dealt == NumPlayers * HandSize
    IN  [g EXCEPT
           !.liveWall = SubSeq(w.liveWall, dealt + 2, Len(w.liveWall)),
           !.deadWall = w.deadWall,
           !.livePointer = dealt + 1,
           !.concealed = [p \in Seats |-> g.concealed[p] \o dealtTo(w.liveWall, p)],
           !.state = "PLAYING",
           !.currentPlayer = dealerPosition]

handleExhaustiveDraw(g) == [g EXCEPT !.state = "ENDED"]

HKOSGame_executeTurnStart(g) ==
    IF g.state # "PLAYING" THEN [g |-> g, ret |-> "Game not in playing state"]
    ELSE LET turnResult == turnStart(g)
         IN  IF turnResult.action = "EXHAUSTIVE_DRAW"
             THEN [g |-> handleExhaustiveDraw(g), ret |-> "DRAW"]
             ELSE [g |-> [g EXCEPT !.liveWall = Tail(@),
                                   !.concealed[g.currentPlayer] =
                                       Append(@, turnResult.tile)],
                   ret |-> "success"]

HKOSGame_executeDiscard(g, playerPosition, tile) ==
    IF g.currentPlayer # playerPosition THEN [g |-> g, ret |-> "Not your turn"]
    ELSE LET tileIndex == indexOfId(g.concealed[playerPosition], tile)
         IN  IF tileIndex = 0 THEN [g |-> g, ret |-> "Tile not in hand"]
             ELSE [g |-> [resetFuriten(g, playerPosition) EXCEPT
                            !.concealed[playerPosition] = RemoveAt(@, tileIndex),
                            !.discards[playerPosition] = Append(@, tile),
                            !.lastDiscard = tile,
                            !.lastDiscarder = playerPosition,
                            !.state = "CLAIMING",
                            !.pendingClaims = <<>>],
                   ret |-> "success"]

\* a submitClaim that opens no claim window, to show that C21 rests on the
\* test of the state
submitClaimInAnyState(g, playerPosition, claimType) ==
    LET claim == [type |-> claimType, playerPosition |-> playerPosition,
                  tile |-> g.lastDiscard]
    IN  IF g.lastDiscard = NULL \/ ~validateClaim(g, claim, g.lastDiscarder)
        THEN [g |-> g, ret |-> "Invalid claim"]
        ELSE [g |-> [g EXCEPT !.pendingClaims = Append(@, claim)],
              ret |-> "success"]

HKOSGame_submitClaim(g, playerPosition, claimType) ==
    IF g.state # "CLAIMING" THEN [g |-> g, ret |-> "No active claim window"]
    ELSE LET claim == [type |-> claimType, playerPosition |-> playerPosition,
                       tile |-> g.lastDiscard]
         IN  IF ~validateClaim(g, claim, g.lastDiscarder)
             THEN [g |-> g, ret |-> "Invalid claim"]
             ELSE [g |-> [g EXCEPT !.pendingClaims = Append(@, claim)],
                   ret |-> "success"]

\* calculateSettlement: the seat that discarded the winning tile pays the
\* winner calculatePayments of the points of the hand; every other seat pays
\* after a self-draw
calculateSettlement(g, p, tile, isSelfDraw) ==
    LET h == [concealed |-> IF isSelfDraw THEN g.concealed[p]
                            ELSE Append(g.concealed[p], tile),
              exposed |-> g.exposed[p]]
        points == calculateScore(h, isSelfDraw, seatWind(p), prevailingWind).points
        losers == IF isSelfDraw THEN Seats \ {p} ELSE {g.lastDiscarder} \ {p}
        payments == [s \in Seats |->
                        IF s \in losers
                        THEN calculatePayments(seatWind(p), seatWind(s), points)
                        ELSE 0]
    IN  [payments |-> payments,
         winnerGains |-> SumSeq([i \in 1 .. NumPlayers |-> payments[i - 1]])]

\* a win that pays nothing, to show that C35 rests on the settlement of a win
executeWinUnsettled(g, playerPosition, winningTile, isSelfDraw) ==
    IF ~evaluateWinCondition(g, playerPosition, winningTile, isSelfDraw)
    THEN [g |-> g, ret |-> "Invalid win"]
    ELSE [g |-> [g EXCEPT !.state = "ENDED"], ret |-> "WIN_HU"]

HKOSGame_executeWin(g, playerPosition, winningTile, isSelfDraw) ==
    IF ~evaluateWinCondition(g, playerPosition, winningTile, isSelfDraw)
    THEN [g |-> g, ret |-> "Invalid win"]
    ELSE LET settlement == calculateSettlement(g, playerPosition, winningTile,
                                               isSelfDraw)
         IN  [g |-> [g EXCEPT
                       !.score = [s \in Seats |->
                                    IF s = playerPosition
                                    THEN g.score[s] + settlement.winnerGains
                                    ELSE g.score[s] - settlement.payments[s]],
                       !.state = "ENDED"],
              ret |-> "WIN_HU"]

\* indexOf(lastDiscard) and splice, n times
RECURSIVE spliceDiscard(_, _, _)
spliceDiscard(s, tile, n) ==
    IF n = 0 THEN s
    ELSE LET idx == indexOfId(s, tile)
         IN  spliceDiscard(IF idx > 0 THEN RemoveAt(s, idx) ELSE s, tile, n - 1)

HKOSGame_executeClaim(g, claim) ==
    LET p == claim.playerPosition
        d == g.lastDiscard
        g1 == [g EXCEPT !.discards[g.lastDiscarder] =
                            IF @ = <<>> THEN @ ELSE SubSeq(@, 1, Len(@) - 1)]
        kongResult == handleKong(g1)
        g2 == CASE claim.type = "PUNG" ->
                     [g1 EXCEPT !.concealed[p] = spliceDiscard(@, d, 2),
                                !.exposed[p] =
                                    Append(@, [type |-> "PUNG", tiles |-> <<d, d, d>>])]
                 [] claim.type = "KONG_EXPOSED" ->
                     [g1 EXCEPT !.concealed[p] =
                                    IF kongResult.success
                                    THEN Append(spliceDiscard(@, d, 3), kongResult.tile)
                                    ELSE spliceDiscard(@, d, 3),
                                !.exposed[p] =
                                    Append(@, [type |-> "KONG_EXPOSED",
                                               tiles |-> <<d, d, d, d>>]),
                                !.deadWall = IF kongResult.success THEN Tail(@) ELSE @]
                 [] claim.type = "CHOW" ->
                     [g1 EXCEPT !.exposed[p] =
                                    Append(@, [type |-> "CHOW", tiles |-> <<>>])]
                 [] OTHER -> g1
    IN  IF claim.type = "WIN_HU" THEN HKOSGame_executeWin(g, p, d, FALSE)
        ELSE [g |-> [g2 EXCEPT !.currentPlayer = p, !.state = "PLAYING"],
              ret |-> claim.type]

HKOSGame_resolveClaims(g) ==
    IF Len(g.pendingClaims) = 0
    THEN [g |-> [g EXCEPT !.state = "PLAYING",
                          !.currentPlayer = (g.currentPlayer + 1) % NumPlayers],
          ret |-> "NO_CLAIMS"]
    ELSE HKOSGame_executeClaim(g, hkResolveClaims(g.pendingClaims, g.lastDiscarder))

(***************************************************************************)
(* HKOSGame under any caller: after startGame any method is called for any *)
(* seat, in any order, at most MaxHKCalls calls that are not turned away;  *)
(* a claim may be submitted outside a claim window at any time.            *)
(***************************************************************************)
HKClaimTypes == {"WIN_HU", "PUNG", "KONG_EXPOSED", "CHOW"}

HKStartGame(tiles) ==
    /\ starts = 0
    /\ Apply(HKOSGame_startGame(G, tiles))
    /\ lastOp' = Op("startGame", NoSeat, "success")
    /\ starts' = starts + 1
    /\ UNCHANGED <<survivor, calls, scored>>

HKTurnStart ==
    /\ Started
    /\ LET r == HKOSGame_executeTurnStart(G)
       IN  /\ Apply(r.g)
           /\ lastOp' = Op("executeTurnStart", currentPlayer, r.ret)
           /\ calls' = IF r.g = G THEN calls ELSE calls + 1
    /\ UNCHANGED <<survivor, starts, scored>>

HKDiscard(s, i) ==
    /\ Started
    /\ i <= Len(concealed[s])
    /\ LET r == HKOSGame_executeDiscard(G, s, concealed[s][i])
       IN  /\ Apply(r.g)
           /\ lastOp' = Op("executeDiscard", s, r.ret)
           /\ calls' = IF r.g = G THEN calls ELSE calls + 1
    /\ UNCHANGED <<survivor, starts, scored>>

HKSubmitClaim(s, type) ==
    /\ Started
    /\ calls < MaxHKCalls \/ state # "CLAIMING"
    /\ Len(pendingClaims) < MaxClaims
    /\ LET r == HKOSGame_submitClaim(G, s, type)
       IN  /\ Apply(r.g)
           /\ lastOp' = Op("submitClaim", s, r.ret)
           /\ calls' = IF r.g = G THEN calls ELSE calls + 1
    /\ UNCHANGED <<survivor, starts, scored>>

HKResolveClaims ==
    /\ Started
    /\ LET r == HKOSGame_resolveClaims(G)
       IN  /\ Apply(r.g)
           /\ lastOp' = Op("resolveClaims", NoSeat, r.ret)
           /\ calls' = IF r.g = G THEN calls ELSE calls + 1
    /\ UNCHANGED <<survivor, starts, scored>>

NextHK ==
    \/ \E tiles \in Walls : HKStartGame(tiles)
    \/ calls < MaxHKCalls /\ HKTurnStart
    \/ calls < MaxHKCalls /\ \E s \in Seats : \E i \in 1 .. (MaxTileIndex + 1) : HKDiscard(s, i)
    \/ \E s \in Seats : \E type \in HKClaimTypes : HKSubmitClaim(s, type)
    \/ calls < MaxHKCalls /\ HKResolveClaims

SpecHK == Init /\ [][NextHK]_vars

(***************************************************************************)
(* The claim window of HKOSGame, under SpecHK                              *)
(***************************************************************************)
\* C21: submitClaim is accepted only while the state is CLAIMING; in every
\* other state it returns the failure 'No active claim window' and leaves
\* pendingClaims and every other field of the game as they were.
C21_ClaimOnlyInWindow ==
    [][(lastOp'.op = "submitClaim" /\ state # "CLAIMING") =>
              /\ lastOp'.ret = "No active claim window"
              /\ UNCHANGED <<state, endReason, endWinner, currentPlayer, turnCount,
                             liveWall, deadWall, livePointer, deadPointer,
                             concealed, exposed, discards, isFuriten,
                             pendingClaims, lastDiscard, lastDiscarder>>]_vars

\* a claim was refused after a window had been resolved by a win
C21_Witness ==
    /\ lastOp.op = "submitClaim"
    /\ lastOp.ret = "No active claim window"
    /\ state = "ENDED"

\* C31: calculatePayments returns twice the points when the winner or the
\* paying loser is East and exactly the points otherwise; the payment is
\* doubled once, not twice, when both are East.
C31_EastPaysDouble ==
    scored.op = "calculatePayments" =>
        scored.result = (IF scored.winner = WindE \/ scored.loser = WindE
                         THEN scored.points + scored.points
                         ELSE scored.points)

\* the limit was paid between two East players: 64, not 128
C31_Witness ==
    /\ scored.op = "calculatePayments"
    /\ scored.winner = WindE
    /\ scored.loser = WindE
    /\ scored.points = LIMIT_POINTS
    /\ scored.result = 64

\* C39: for every hand and context, calculateScore returns a totalFaan equal
\* to the sum of the Faan of its breakdown entries, points equal to
\* calculatePoints of that total, and isValid true exactly when the points
\* are positive.
C39_ScoreConsistent ==
    scored.op = "calculateScore" =>
        LET r == scored.result
        IN  /\ r.totalFaan = SumSeq([i \in DOMAIN r.breakdown |-> r.breakdown[i].faan])
            /\ r.points = (IF r.totalFaan < 3 THEN 0
                           ELSE IF r.totalFaan >= 13 THEN 32
                           ELSE Pow2(r.totalFaan - 3))
            /\ r.isValid <=> r.points > 0

\* a hand of several patterns was scored valid, for more than one point
C39_Witness ==
    /\ scored.op = "calculateScore"
    /\ Len(scored.result.breakdown) >= 2
    /\ scored.result.isValid
    /\ scored.result.points > 1

\* C32: a discard is accepted only in state PLAYING: a discard made while the
\* state is CLAIMING, by any seat, is turned away, and the pending discard and
\* the pending claims on it are kept.
C32_DiscardOnlyWhilePlaying ==
    [][(lastOp'.op = "discardTile" /\ state = "CLAIMING") =>
            /\ lastOp'.ret # "success"
            /\ UNCHANGED <<state, lastDiscard, lastDiscarder, pendingClaims,
                           concealed, discards>>]_vars

\* C34: the state is CLAIMING exactly when there are pending claims, and no
\* pending claim belongs to the seat that made the discard.
C34_ClaimingIffPending ==
    Started =>
        /\ state = "CLAIMING" <=> pendingClaims # <<>>
        /\ \A i \in DOMAIN pendingClaims : pendingClaims[i].player # lastDiscarder

\* C36: a skipClaim made while the state is not CLAIMING, or by a seat with no
\* pending claim on the current discard, does not advance the current player,
\* draws no tile from the live wall and changes no Furiten flag.
C36_SkipOnlyInsideWindow ==
    [][(lastOp'.op = "skipClaim"
          /\ (state # "CLAIMING" \/ ~hasPendingClaim(lastOp'.seat))) =>
            UNCHANGED <<currentPlayer, livePointer, concealed, isFuriten>>]_vars

\* the claim window of the last discard has been closed: a claim on it was
\* executed, or the turn moved on with no survivor
WindowClosed ==
    /\ Started
    /\ lastDiscard \notin {NULL, UNDEFINED}
    /\ state # "CLAIMING"

\* C37: at most one claim is executed per discard and the turn advances at
\* most once per discard: once the window of a discard is closed, no further
\* resolveClaims or skipClaim call executes a claim on it, moves the turn or
\* draws a live-wall tile for it.
C37_OneClaimPerDiscard ==
    [][(WindowClosed /\ lastOp'.op \in {"resolveClaims", "skipClaim"}) =>
            UNCHANGED <<exposed, concealed, currentPlayer, livePointer>>]_vars

\* resolveClaims has executed a claim of seat p
Executed(p) ==
    /\ lastOp'.op = "resolveClaims"
    /\ lastOp'.ret \in HKClaimTypes
    /\ \E i \in DOMAIN pendingClaims :
          /\ pendingClaims[i].playerPosition = p
          /\ pendingClaims[i].type = lastOp'.ret

OthersKeepTiles(p) ==
    \A s \in Seats \ {p} :
        concealed'[s] = concealed[s] /\ exposed'[s] = exposed[s]

RECURSIVE keysOf(_)
keysOf(tiles) ==
    IF tiles = <<>> THEN <<>>
    ELSE LET rest == keysOf(SubSeq(tiles, 1, Len(tiles) - 1))
             key == Kind(tiles[Len(tiles)])
         IN  IF key \in Range(rest) THEN rest ELSE Append(rest, key)

countsOf(tiles) ==
    [k \in Kinds |-> Cardinality({i \in DOMAIN tiles : Kind(tiles[i]) = k})]

\* the melds are taken from the first key that still has tiles; a run is
\* tried only upwards from that key
RECURSIVE canFormMelds(_, _)
canFormMelds(keys, counts) ==
    LET live == SelectSeq(keys, LAMBDA k : counts[k] > 0)
    IN  IF live = <<>> THEN TRUE
        ELSE LET key == live[1]
                 val == (key % 9) + 1
             IN  \/ /\ counts[key] >= 3
                    /\ canFormMelds(keys, [counts EXCEPT ![key] = @ - 3])
                 \/ /\ key < 27
                    /\ val <= 7
                    /\ counts[key + 1] >= 1
                    /\ counts[key + 2] >= 1
                    /\ canFormMelds(keys, [counts EXCEPT ![key] = @ - 1,
                                                         ![key + 1] = @ - 1,
                                                         ![key + 2] = @ - 1])

legacyTotal(tiles, melds) ==
    Len(tiles)
      + SumSeq([i \in DOMAIN melds |-> IF melds[i].type = "kong" THEN 4 ELSE 3])

isWinningHand(tiles, melds) ==
    LET keys == keysOf(tiles)
        counts == countsOf(tiles)
    IN  /\ legacyTotal(tiles, melds) = 14
        /\ \E i \in DOMAIN keys :
              /\ counts[keys[i]] >= 2
              /\ canFormMelds(keys, [counts EXCEPT ![keys[i]] = @ - 2])

\* declareMahjong: the hand, with the claimed discard pushed at its end
testHand(tiles, fromDiscard, lastTile) ==
    IF fromDiscard /\ lastTile # NULL THEN Append(tiles, lastTile) ELSE tiles

\* hands of the legacy game, which sortHand keeps sorted by value within each
\* suit: ten concealed tiles that wait for one tile
WinRests ==
    {<<9, 9, 9, 31, 31, 1, 2, 3, 4, 5>>,
     <<9, 10, 11, 18, 18, 18, 31, 0, 1, 2>>,
     <<10, 11, 13, 13, 18, 19, 20, 4, 5, 6>>,
     <<12, 13, 14, 22, 22, 32, 32, 6, 7, 8>>}

\* the set of East tiles: concealed, an exposed pung, or an exposed kong
EastSet == <<WindE, WindE, WindE>>
legacyMeld(type, k) ==
    [type |-> type,
     tiles |-> IF type = "kong" THEN <<4 * k, 4 * k + 1, 4 * k + 2, 4 * k + 3>>
               ELSE <<4 * k, 4 * k + 1, 4 * k + 2>>]

WinInputs ==
    {[hand |-> HandOf(EastSet \o r), exposed |-> <<>>] : r \in WinRests}
      \cup {[hand |-> HandOf(r), exposed |-> <<legacyMeld(type, WindE)>>] :
               r \in WinRests, type \in {"pung", "kong"}}

\* the tiles of kind k that a hand does not hold yet
FreeTiles(h, k) ==
    {t \in 4 * k .. 4 * k + 3 :
        /\ t \notin Range(h.hand)
        /\ \A i \in DOMAIN h.exposed : t \notin Range(h.exposed[i].tiles)}

InitWin ==
    /\ state = "WAITING"
    /\ endReason = "NONE"
    /\ endWinner = NoSeat
    /\ currentPlayer = 0
    /\ turnCount = 0
    /\ liveWall = <<>>
    /\ deadWall = <<>>
    /\ livePointer = 0
    /\ deadPointer = 0
    /\ concealed = [s \in Seats |-> <<>>]
    /\ exposed = [s \in Seats |-> <<>>]
    /\ discards = [s \in Seats |-> <<>>]
    /\ isFuriten = [s \in Seats |-> FALSE]
    /\ pendingClaims = <<>>
    /\ lastDiscard = NULL
    /\ lastDiscarder = NoSeat
    /\ score = [s \in Seats |-> 0]
    /\ survivor = NoClaim
    /\ lastOp = Op("new", NoSeat, "none")
    /\ calls = 0
    /\ starts = 0
    /\ scored \in {[op |-> "hand", hand |-> h.hand, exposed |-> h.exposed] :
                     h \in WinInputs}

\* declareMahjong(socketId, true) on the discard of a tile of kind k
DeclareMahjongCall(k) ==
    /\ scored.op = "hand"
    /\ FreeTiles(scored, k) # {}
    /\ LET lastTile == CHOOSE t \in FreeTiles(scored, k) :
                            \A u \in FreeTiles(scored, k) : t <= u
           tested == testHand(scored.hand, TRUE, lastTile)
       IN  scored' = [op |-> "isWinningHand", hand |-> tested,
                      exposed |-> scored.exposed,
                      result |-> isWinningHand(tested, scored.exposed)]
    /\ UNCHANGED gameVars

NextWin == \E k \in Kinds : DeclareMahjongCall(k)

SpecWin == InitWin /\ [][NextWin]_vars

\* the count of each kind, whatever the order of the tiles
RECURSIVE Splits(_)
Splits(counts) ==
    IF \A k \in Kinds : counts[k] = 0 THEN TRUE
    ELSE LET k == CHOOSE j \in Kinds :
                      counts[j] > 0 /\ \A i \in Kinds : counts[i] > 0 => j <= i
         IN  \/ counts[k] >= 3 /\ Splits([counts EXCEPT ![k] = @ - 3])
             \/ /\ k < 27
                /\ k % 9 <= 6
                /\ counts[k + 1] >= 1
                /\ counts[k + 2] >= 1
                /\ Splits([counts EXCEPT ![k] = @ - 1, ![k + 1] = @ - 1,
                                         ![k + 2] = @ - 1])

\* one pair and, with the exposed melds, four melds: pungs and same-suit runs
\* of three, a kong being one meld of four tiles
PairAndMelds(tiles, melds) ==
    /\ Len(tiles) = 2 + 3 * (4 - Len(melds))
    /\ \E k \in Kinds :
          /\ countsOf(tiles)[k] >= 2
          /\ Splits([countsOf(tiles) EXCEPT ![k] = @ - 2])

\* C33: isWinningHand returns true exactly when the concealed tiles, the
\* winning tile included, split into one pair plus pungs and same-suit runs
\* of three that make four melds with the exposed melds, a declared kong
\* being one meld of four, whatever the order of the tiles.
C33_WinningHandExact ==
    scored.op = "isWinningHand" =>
        (scored.result <=> PairAndMelds(scored.hand, scored.exposed))

(***************************************************************************)
(* Whole games under fair scheduling                                       *)
(***************************************************************************)
FairWalls == PlayWalls \cup {SelfDrawWall}

ClaimOrSkip == \E s \in Seats : ClaimTile(s) \/ SkipOffer(s)

NextFair ==
    \/ \E tiles \in FairWalls : StartPlay(tiles)
    \/ AITurn
    \/ ClaimOrSkip

\* the seat to play can discard
TurnOpen ==
    Started /\ state = "PLAYING" /\ Len(concealed[currentPlayer]) > 0

\* a claimant can still claim or skip
ClaimOpen == Started /\ \E s \in Seats : hasPendingClaim(s)

\* the step of AITurn, told by the call it records
SeatDiscards ==
    /\ TurnOpen
    /\ calls' = calls + 1
    /\ lastOp' = Op("discardTile", currentPlayer, "success")

\* the step of ClaimOrSkip, told by the call it records
WindowAnswered ==
    /\ ClaimOpen
    /\ calls' = calls + 1
    /\ lastOp' \in {Op(op, s, ret) :
                       op \in {"resolveClaims", "skipClaim"},
                       s \in Seats \cup {NoSeat},
                       ret \in {"WIN", "PUNG", "KONG", "CHOW", "NONE",
                               "skipped", "DECLINE_WIN"}}

\* the seat to play eventually discards, and an open claim window is
\* eventually resolved or skipped by its claimants
SpecFair ==
    /\ Init
    /\ [][NextFair]_vars
    /\ WF_<<calls, lastOp>>(SeatDiscards)
    /\ WF_<<calls, lastOp>>(WindowAnswered)

\* the fair steps are the steps of the game: a discard of the seat to play is
\* a SeatDiscards step and an answer to a claim window a WindowAnswered step
FairStepsAreGameSteps ==
    [][/\ (TurnOpen /\ lastOp'.op = "discardTile") => SeatDiscards
       /\ (ClaimOpen /\ lastOp'.op \in {"resolveClaims", "skipClaim"})
             => WindowAnswered
       /\ Started => (TurnOpen \/ ClaimOpen \/ state = "ENDED")]_vars

\* C38: under fair scheduling every started game eventually reaches ENDED,
\* by a win or by the exhaustive draw.
C38_GameEnds ==
    Started ~> (state = "ENDED" /\ endReason \in {"WIN", "EXHAUSTIVE_DRAW"})

\* a game was played to the end of the live wall and ended by the exhaustive
\* draw
C38_Witness ==
    /\ Started
    /\ state = "ENDED"
    /\ endReason = "EXHAUSTIVE_DRAW"
    /\ livePointer >= Len(liveWall)
    /\ turnCount > 0

====
